---------------------------- MODULE Spec2Model ----------------------------
(***************************************************************************)
(* The Transparency Exchange API: Products, Components, Releases and       *)
(* Collections kept in a relational store, the association tables between  *)
(* them, and the lifecycle of a Collection.                                *)
(*                                                                         *)
(* The repository holds two copies of the request handlers.  The copy      *)
(* under functions/ ("functions" below) has no session and no organisation *)
(* check; the other copy ("session" below) reads data.session and the      *)
(* orgId of every row.  The two copies never serve the same store: the     *)
(* middleware of functions/ sets no session, so a handler of the session   *)
(* copy would answer 401 to every request under it.  `deployment` names    *)
(* the copy a behaviour runs.                                              *)
(*                                                                         *)
(* A handler is one action up to its first store write and one action per  *)
(* later store write that is awaited on its own (outside a transaction):   *)
(* other requests are served between two awaits.  The statements of a      *)
(* $transaction are one action; what a transaction that throws leaves in   *)
(* the store is Rollback.  At most one handler is between two of its       *)
(* writes at a time (inflight).                                            *)
(*                                                                         *)
(* Spec is the relational core: the POST and DELETE handlers of the four   *)
(* entity types, with store failures.  LifecycleSpec is the PATCH handlers *)
(* of a Collection over every shape of request body, from the store a      *)
(* first POST /release leaves.                                             *)
(***************************************************************************)
EXTENDS Naturals, Sequences, FiniteSets, TLC

(* ------------------------------ bounds -------------------------------- *)

\* How many uuids of each entity type crypto.randomUUID() hands out.
MaxProducts == 2

MaxComponents == 2

MaxReleases == 2

MaxCollections == 1

(* --------------------------- value domains ---------------------------- *)

\* JavaScript's undefined (the value of a key an object does not carry) and
\* null.
Absent == "undefined"

Null == "null"

\* The time a handler reads from the clock (new Date(), Date.now()).
Now == "now"

\* The time transitionLifecycle reads from the clock: it runs on the lifecycle
\* of a stored row, after the time the row was created with.
Later == "later"

\* NoSession is a request without data.session; every other session is named
\* by its data.session.orgId.
NoSession == "no-session"

\* The orgId a row read from the store carries when none was written.
NoOrg == Absent

Deployments == {"functions", "session"}

\* crypto.randomUUID(): the n-th call of an entity type yields the n-th uuid
\* of its pool; a uuid is never handed out twice.
ProductPool == <<"p1", "p2", "p3", "p4">>

ComponentPool == <<"c1", "c2", "c3", "c4">>

ReleasePool == <<"r1", "r2", "r3", "r4">>

CollectionPool == <<"k1", "k2", "k3", "k4">>

ProductUuids == {ProductPool[i] : i \in 1..MaxProducts}

ComponentUuids == {ComponentPool[i] : i \in 1..MaxComponents}

ReleaseUuids == {ReleasePool[i] : i \in 1..MaxReleases}

CollectionUuids == {CollectionPool[i] : i \in 1..MaxCollections}

\* The text of a uuid or of a path parameter, character by character.  The
\* uuids of the pools are spelled with a first digit for the entity type and
\* a last digit for the place in the pool.
Repeat(char, n) == [i \in 1..n |-> char]

Spelled(first, last) ==
    <<first>> \o Repeat("0", 7) \o <<"-">> \o Repeat("0", 4) \o <<"-">> \o
    Repeat("0", 4) \o <<"-">> \o Repeat("0", 4) \o <<"-">> \o Repeat("0", 11) \o <<last>>

PlaceDigits == <<"1", "2", "3", "4">>

\* Path parameters and body identifiers that name no uuid of a pool: two that
\* are uuids (one in upper case) and four that are not.
UnknownUuids == {"b1", "B1"}

MalformedUuids == {"", "1234", "g1", "a1x"}

UuidText(uuid) ==
    IF \E i \in 1..4 : ProductPool[i] = uuid
    THEN Spelled("a", PlaceDigits[CHOOSE i \in 1..4 : ProductPool[i] = uuid])
    ELSE IF \E i \in 1..4 : ComponentPool[i] = uuid
    THEN Spelled("c", PlaceDigits[CHOOSE i \in 1..4 : ComponentPool[i] = uuid])
    ELSE IF \E i \in 1..4 : ReleasePool[i] = uuid
    THEN Spelled("e", PlaceDigits[CHOOSE i \in 1..4 : ReleasePool[i] = uuid])
    ELSE IF \E i \in 1..4 : CollectionPool[i] = uuid
    THEN Spelled("f", PlaceDigits[CHOOSE i \in 1..4 : CollectionPool[i] = uuid])
    ELSE IF uuid = "b1" THEN Spelled("b", "1")
    ELSE IF uuid = "B1" THEN Spelled("B", "1")
    ELSE IF uuid = "g1" THEN Spelled("g", "1")
    ELSE IF uuid = "a1x" THEN Spelled("a", "1") \o <<"x">>
    ELSE IF uuid = "1234" THEN <<"1", "2", "3", "4">>
    ELSE << >>

\* [0-9a-f] under the flag i
HexDigits ==
    {"0", "1", "2", "3", "4", "5", "6", "7", "8", "9",
     "a", "b", "c", "d", "e", "f", "A", "B", "C", "D", "E", "F"}

\* The pattern without its anchors: the 8-4-4-4-12 grouping may start and end
\* anywhere in the text.
UuidPattern_Mutant(text) ==
    \E start \in 0..Len(text) :
        /\ start + 36 <= Len(text)
        /\ \A i \in 1..36 :
                IF i \in {9, 14, 19, 24}
                THEN text[start + i] = "-" ELSE text[start + i] \in HexDigits

\* /^[0-9a-f]{8}-[0-9a-f]{4}-[0-9a-f]{4}-[0-9a-f]{4}-[0-9a-f]{12}$/i.test(text)
UuidPattern(text) ==
    /\ Len(text) = 36
    /\ \A i \in 1..36 :
            IF i \in {9, 14, 19, 24} THEN text[i] = "-" ELSE text[i] \in HexDigits

\* The names whose text the pattern accepts.
PatternAccepts ==
    {uuid \in {ProductPool[i] : i \in 1..4} \cup {ComponentPool[i] : i \in 1..4} \cup
              {ReleasePool[i] : i \in 1..4} \cup {CollectionPool[i] : i \in 1..4} \cup
              UnknownUuids \cup MalformedUuids :
        UuidPattern(UuidText(uuid))}

\* if (!uuid || !/^...$/i.test(uuid)) -> 400
InvalidUuid(uuid) == uuid = "" \/ uuid \notin PatternAccepts

\* TeaLifecycle['phase']
Phases == {"created", "in-progress", "updated", "completed", "archived", "deprecated"}

(* --------------------------- JSON objects ----------------------------- *)

\* An object is a function from the keys it carries to their values.
EmptyObject == << >>

Has(object, key) == key \in DOMAIN object

\* object.key: undefined when the object does not carry the key
Get(object, key) == IF key \in DOMAIN object THEN object[key] ELSE Absent

\* A test that takes the empty string for a value.
Falsy_Mutant(object, key) == ~Has(object, key)

\* !object.key for a string: undefined and the empty string are falsy
Falsy(object, key) == ~Has(object, key) \/ object[key] = ""

\* { ...object, ...updates }
Spread(object, updates) == updates @@ object

\* A column written from object.key: null when the object carries no key.
StoredText(object, key) == IF Has(object, key) THEN object[key] ELSE Null

\* object.key || []
ListOr(object, key) == IF Has(object, key) THEN object[key] ELSE << >>

\* JSON.stringify drops the keys whose value is undefined; the text it gives
\* is kept as the value it encodes.
JSONstringify(value) == [json |-> value]

JSONstringifyObject(object) ==
    [json |-> [key \in {k \in DOMAIN object : object[k] # Absent} |-> object[key]]]

\* JSON.parse(text || fallback): a column without text (null) gives the
\* fallback.
JSONparse(text, fallback) == IF Has(text, "json") THEN text.json ELSE fallback

(* ------------------------------ state --------------------------------- *)

VARIABLES
    deployment,   \* which copy of the handlers serves the store
    db,           \* the store: one field per table of schema.prisma
    generated,    \* how many uuids randomUUID() has handed out, by entity type
    inflight,     \* the POST handler that awaits its second store write
    response      \* the last Response a handler returned

vars == <<deployment, db, generated, inflight, response>>

\* The tables of schema.prisma.  An entity table is a function from the uuid
\* of a row to the row, an association table a set of rows.
EmptyStore ==
    [teaProduct |-> << >>,
     teaComponent |-> << >>,
     teaRelease |-> << >>,
     teaCollection |-> << >>,
     teaProductComponent |-> {},
     teaReleaseComponent |-> {},
     teaCollectionProducts |-> {}]

NoRequest == [op |-> "none"]

NoResponse == [op |-> "none", status |-> 0, error |-> Absent, data |-> EmptyObject]

Init ==
    /\ deployment \in Deployments
    /\ db = EmptyStore
    /\ generated = [product |-> 0, component |-> 0, release |-> 0, collection |-> 0]
    /\ inflight = NoRequest
    /\ response = NoResponse

(* ------------------------- responses, sessions ------------------------ *)

Response(op, status, data) ==
    [op |-> op, status |-> status, error |-> Absent, data |-> data]

\* new Response(JSON.stringify({ error }), { status })
ErrorResponse(op, status, error) ==
    [op |-> op, status |-> status, error |-> error, data |-> EmptyObject]

\* A catch that answers with the message of the error it caught.
InternalError_Mutant(op) == ErrorResponse(op, 500, "PrismaClientKnownRequestError")

\* catch (error) { ... status: 500 }
InternalError(op) == ErrorResponse(op, 500, "Internal server error")

\* A handler that answers after it has touched updatedAt of every collection.
Reject_Mutant(rejection) ==
    /\ response' = rejection
    /\ db' = [db EXCEPT !.teaCollection =
                [uuid \in DOMAIN @ |-> [@[uuid] EXCEPT !.updatedAt = Later]]]
    /\ UNCHANGED <<generated, inflight>>

\* A handler that returns before it wrote anything.
Reject(rejection) ==
    /\ response' = rejection
    /\ UNCHANGED <<db, generated, inflight>>

\* if (!data.session?.memberUuid || !data.session?.orgId) -> 401
Unauthenticated(session) == deployment = "session" /\ session = NoSession

\* if (existing.orgId !== data.session.orgId) -> 403
AccessDenied(row, session) == deployment = "session" /\ row.orgId # session

\* orgId: data.session.orgId of a created row; the functions copy writes none.
OrgIdOf(session) == IF deployment = "session" THEN session ELSE NoOrg

(* ----------------------------- the store ------------------------------ *)

\* A table with one row added or replaced, and with rows removed.
Put(table, uuid, row) ==
    [u \in DOMAIN table \cup {uuid} |-> IF u = uuid THEN row ELSE table[u]]

Without(table, uuids) == [u \in DOMAIN table \ uuids |-> table[u]]

\* id Int @id @default(autoincrement()): the id of the next row of an
\* association table.  No handler reads an id or returns one; the model takes
\* the id after the largest in the table.
NextId(table) ==
    LET ids == {row.id : row \in table}
    IN  IF ids = {} THEN 1 ELSE (CHOOSE id \in ids : \A other \in ids : other <= id) + 1

\* A table without the foreign key to the product.
ProductComponentCreateOk_Mutant(s, row) ==
    /\ row.componentUuid \in DOMAIN s.teaComponent
    /\ \A existing \in s.teaProductComponent :
            ~(/\ existing.productUuid = row.productUuid
              /\ existing.componentUuid = row.componentUuid)

\* TeaProductComponent: product and component are foreign keys, and
\* @@unique([productUuid, componentUuid]).
ProductComponentCreateOk(s, row) ==
    /\ row.productUuid \in DOMAIN s.teaProduct
    /\ row.componentUuid \in DOMAIN s.teaComponent
    /\ \A existing \in s.teaProductComponent :
            ~(/\ existing.productUuid = row.productUuid
              /\ existing.componentUuid = row.componentUuid)

\* An insert that links the component to every stored product.
ProductComponentCreate_Mutant(s, row) ==
    [s EXCEPT !.teaProductComponent =
        @ \cup {[id |-> NextId(@) + i - 1, productUuid |-> ProductPool[i],
                 componentUuid |-> row.componentUuid] :
                    i \in {j \in 1..4 : ProductPool[j] \in DOMAIN s.teaProduct}}]

ProductComponentCreate(s, row) ==
    [s EXCEPT !.teaProductComponent =
        @ \cup {[id |-> NextId(@), productUuid |-> row.productUuid,
                 componentUuid |-> row.componentUuid]}]

\* TeaReleaseComponent without its @@unique([releaseUuid, componentUuid]).
ReleaseComponentCreateOk_Mutant(s, row) ==
    /\ row.releaseUuid \in DOMAIN s.teaRelease
    /\ row.componentUuid \in DOMAIN s.teaComponent

\* TeaReleaseComponent: release and component are foreign keys, and
\* @@unique([releaseUuid, componentUuid]).
ReleaseComponentCreateOk(s, row) ==
    /\ row.releaseUuid \in DOMAIN s.teaRelease
    /\ row.componentUuid \in DOMAIN s.teaComponent
    /\ \A existing \in s.teaReleaseComponent :
            ~(/\ existing.releaseUuid = row.releaseUuid
              /\ existing.componentUuid = row.componentUuid)

ReleaseComponentCreate(s, row) ==
    [s EXCEPT !.teaReleaseComponent =
        @ \cup {[id |-> NextId(@), releaseUuid |-> row.releaseUuid,
                 componentUuid |-> row.componentUuid]}]

\* TeaRelease.product is a foreign key.
ReleaseCreateOk(s, row) == row.productUuid \in DOMAIN s.teaProduct

\* products: { connect: { uuid } } of teaCollection.update: both records
\* must exist; connecting a connected pair again changes nothing.
CollectionConnectOk(s, collectionUuid, productUuid) ==
    /\ collectionUuid \in DOMAIN s.teaCollection
    /\ productUuid \in DOMAIN s.teaProduct

\* A connect that takes every product.
CollectionConnect_Mutant(s, collectionUuid, productUuid) ==
    [s EXCEPT !.teaCollectionProducts =
        @ \cup {<<collectionUuid, uuid>> : uuid \in DOMAIN s.teaProduct}]

CollectionConnect(s, collectionUuid, productUuid) ==
    [s EXCEPT !.teaCollectionProducts = @ \cup {<<collectionUuid, productUuid>>}]

\* deleteMany({ where: ... }) of the association tables.
ProductComponentDeleteMany(s, productUuids, componentUuids) ==
    [s EXCEPT !.teaProductComponent =
        {row \in @ : ~(row.productUuid \in productUuids \/ row.componentUuid \in componentUuids)}]

ReleaseComponentDeleteMany(s, releaseUuids, componentUuids) ==
    [s EXCEPT !.teaReleaseComponent =
        {row \in @ : ~(row.releaseUuid \in releaseUuids \/ row.componentUuid \in componentUuids)}]

\* teaRelease.findMany({ where: { productUuid } })
ReleasesOfProduct(s, productUuid) ==
    {r \in DOMAIN s.teaRelease : s.teaRelease[r].productUuid = productUuid}

\* A row that other rows reference through a foreign key cannot be deleted
\* (the relations of schema.prisma name no onDelete), except that the rows of
\* the implicit many-to-many table go with either side.
ReleaseDeleteOk(s, releaseUuids) ==
    \A row \in s.teaReleaseComponent : row.releaseUuid \notin releaseUuids

\* A delete that removes no row.
ReleaseDelete_Mutant(s, releaseUuids) == s

ReleaseDelete(s, releaseUuids) ==
    [s EXCEPT !.teaRelease = Without(@, releaseUuids)]

\* A product row that releases do not reference through a foreign key.
ProductDeleteOk_Mutant(s, productUuid) ==
    \A row \in s.teaProductComponent : row.productUuid # productUuid

ProductDeleteOk(s, productUuid) ==
    /\ \A row \in s.teaProductComponent : row.productUuid # productUuid
    /\ ReleasesOfProduct(s, productUuid) = {}

\* A delete that takes the collections linked to the product with it.
ProductDelete_Mutant(s, productUuid) ==
    [s EXCEPT !.teaProduct = Without(@, {productUuid}),
              !.teaCollection =
                    Without(@, {link[1] : link \in {l \in s.teaCollectionProducts :
                                                        l[2] = productUuid}}),
              !.teaCollectionProducts = {link \in @ : link[2] # productUuid}]

ProductDelete(s, productUuid) ==
    [s EXCEPT !.teaProduct = Without(@, {productUuid}),
              !.teaCollectionProducts = {link \in @ : link[2] # productUuid}]

ComponentDeleteOk(s, componentUuid) ==
    /\ \A row \in s.teaProductComponent : row.componentUuid # componentUuid
    /\ \A row \in s.teaReleaseComponent : row.componentUuid # componentUuid

ComponentDelete(s, componentUuid) ==
    [s EXCEPT !.teaComponent = Without(@, {componentUuid})]

CollectionDelete_Mutant(s, collectionUuid) ==
    [s EXCEPT !.teaCollection = Without(@, {collectionUuid})]

CollectionDelete(s, collectionUuid) ==
    [s EXCEPT !.teaCollection = Without(@, {collectionUuid}),
              !.teaCollectionProducts = {link \in @ : link[1] # collectionUuid}]

\* prisma.$transaction(async (tx) => { ... }) when the callback throws: the
\* stores the request may leave.  The client is built on the PrismaD1 adapter,
\* which runs the statements of a transaction as individual queries; whether
\* the writes made so far are undone is not the handler's to decide.
Rollback(before, reached) == {before, reached}

\* A store call that the handler awaits may fail (store unavailable, timeout).
StoreFaults == BOOLEAN

(* ------------------------------ products ------------------------------ *)

\* The components of every product.
ComponentsOfProduct_Mutant(s, productUuid) ==
    {row.componentUuid : row \in s.teaProductComponent}

\* teaProductComponent.findMany({ where: { productUuid } }), and
\* product.components.map(c => c.componentUuid)
ComponentsOfProduct(s, productUuid) ==
    {row.componentUuid : row \in {r \in s.teaProductComponent : r.productUuid = productUuid}}

\* POST /product
PostProduct(session, body) ==
    /\ UNCHANGED deployment
    /\ IF Unauthenticated(session)
       THEN Reject(ErrorResponse("POST /product", 401, "Authentication required"))
       ELSE IF Falsy(body, "name")
       THEN Reject(ErrorResponse("POST /product", 400, "Missing required field: name"))
       ELSE IF Falsy(body, "type")
       THEN Reject(ErrorResponse("POST /product", 400, "Missing required field: type"))
       ELSE /\ generated.product < MaxProducts
            /\ LET productUuid == ProductPool[generated.product + 1] IN
               /\ generated' = [generated EXCEPT !.product = @ + 1]
               /\ db' = [db EXCEPT !.teaProduct =
                            Put(@, productUuid,
                                [name |-> body.name,
                                 type |-> body.type,
                                 version |-> StoredText(body, "version"),
                                 identifiers |-> JSONstringify(ListOr(body, "identifiers")),
                                 orgId |-> OrgIdOf(session),
                                 createdAt |-> Now,
                                 updatedAt |-> Now])]
               /\ response' = Response("POST /product", 201,
                                       [identifier |-> productUuid,
                                        components |-> ComponentsOfProduct(db, productUuid)])
            /\ UNCHANGED inflight

\* A delete of the product row alone.
ProductCascade_Mutant(s, productUuid, failAt, done) ==
    [threw |-> failAt # 0,
     stores |-> IF failAt # 0 THEN {s} ELSE {ProductDelete(s, productUuid)}]

\* DELETE /product/{uuid}: the cascade of the transaction, step by step.
\* `failAt` is the store call of the transaction that fails (0: none) and
\* `done` the releases whose rows the loop had deleted when call 3 failed.
ProductCascade(s, productUuid, failAt, done) ==
    LET s1 == ProductComponentDeleteMany(s, {productUuid}, {})
        releases == ReleasesOfProduct(s1, productUuid)
        s3 == ReleaseComponentDeleteMany(s1, releases, {})
        s4 == IF ReleaseDeleteOk(s3, releases) THEN ReleaseDelete(s3, releases) ELSE s3
        threw == \/ failAt # 0
                 \/ ~ReleaseDeleteOk(s3, releases)
                 \/ ~ProductDeleteOk(s4, productUuid)
        reached == CASE failAt = 1 -> s
                     [] failAt = 2 -> s1
                     [] failAt = 3 -> ReleaseComponentDeleteMany(s1, done, {})
                     [] failAt = 4 -> s3
                     [] OTHER -> s4
    IN  [threw |-> threw,
         stores |-> IF threw THEN Rollback(s, reached) ELSE {ProductDelete(s4, productUuid)}]

\* DELETE /product/{uuid}; only the session copy has the route.
DeleteProduct(session, productUuid, failAt, done) ==
    /\ deployment = "session"
    /\ UNCHANGED deployment
    /\ IF Unauthenticated(session)
       THEN Reject(ErrorResponse("DELETE /product/{uuid}", 401, "Authentication required"))
       ELSE IF InvalidUuid(productUuid)
       THEN Reject(ErrorResponse("DELETE /product/{uuid}", 400, "Invalid product UUID"))
       ELSE IF productUuid \notin DOMAIN db.teaProduct
       THEN Reject(ErrorResponse("DELETE /product/{uuid}", 404, "Product not found"))
       ELSE IF AccessDenied(db.teaProduct[productUuid], session)
       THEN Reject(ErrorResponse("DELETE /product/{uuid}", 403, "Access denied"))
       ELSE /\ done \subseteq ReleasesOfProduct(db, productUuid)
            /\ IF failAt = 3 THEN done # ReleasesOfProduct(db, productUuid) ELSE done = {}
            /\ LET tx == ProductCascade(db, productUuid, failAt, done) IN
               /\ db' \in tx.stores
               /\ response' = IF tx.threw
                              THEN InternalError("DELETE /product/{uuid}")
                              ELSE Response("DELETE /product/{uuid}", 204, EmptyObject)
            /\ UNCHANGED <<generated, inflight>>

(* ----------------------------- components ----------------------------- *)

\* POST /component, up to and with teaComponent.create
PostComponent(session, body, fault) ==
    /\ inflight = NoRequest
    /\ UNCHANGED deployment
    /\ IF Unauthenticated(session)
       THEN Reject(ErrorResponse("POST /component", 401, "Authentication required"))
       ELSE IF Falsy(body, "name")
       THEN Reject(ErrorResponse("POST /component", 400, "Missing required field: name"))
       ELSE IF Falsy(body, "type")
       THEN Reject(ErrorResponse("POST /component", 400, "Missing required field: type"))
       ELSE IF Falsy(body, "productIdentifier")
       THEN Reject(ErrorResponse("POST /component", 400,
                                 "Missing required field: productIdentifier"))
       ELSE /\ generated.component < MaxComponents
            /\ generated' = [generated EXCEPT !.component = @ + 1]
            /\ LET componentUuid == ComponentPool[generated.component + 1] IN
               IF fault
               THEN /\ response' = InternalError("POST /component")
                    /\ UNCHANGED <<db, inflight>>
               ELSE /\ db' = [db EXCEPT !.teaComponent =
                                 Put(@, componentUuid,
                                     [name |-> body.name,
                                      type |-> body.type,
                                      version |-> StoredText(body, "version"),
                                      identifiers |->
                                          JSONstringify(ListOr(body, "identifiers")),
                                      orgId |-> OrgIdOf(session),
                                      createdAt |-> Now,
                                      updatedAt |-> Now])]
                    /\ inflight' = [op |-> "POST /component", uuid |-> componentUuid,
                                    link |-> body.productIdentifier]
                    /\ UNCHANGED response

\* POST /component, teaProductComponent.create and the response
PostComponentLink(fault) ==
    /\ inflight.op = "POST /component"
    /\ inflight' = NoRequest
    /\ UNCHANGED <<deployment, generated>>
    /\ LET row == [productUuid |-> inflight.link, componentUuid |-> inflight.uuid] IN
       IF fault \/ ~ProductComponentCreateOk(db, row)
       THEN /\ response' = InternalError("POST /component")
            /\ UNCHANGED db
       ELSE /\ db' = ProductComponentCreate(db, row)
            /\ response' = Response("POST /component", 201, [identifier |-> inflight.uuid])

\* DELETE /component/{uuid}: the cascade of the transaction.
ComponentCascade(s, componentUuid, failAt) ==
    LET s1 == ProductComponentDeleteMany(s, {}, {componentUuid})
        s2 == ReleaseComponentDeleteMany(s1, {}, {componentUuid})
        threw == failAt # 0 \/ ~ComponentDeleteOk(s2, componentUuid)
        reached == CASE failAt = 1 -> s
                     [] failAt = 2 -> s1
                     [] OTHER -> s2
    IN  [threw |-> threw,
         stores |-> IF threw THEN Rollback(s, reached)
                    ELSE {ComponentDelete(s2, componentUuid)}]

\* DELETE /component/{uuid}
DeleteComponent(session, componentUuid, failAt) ==
    /\ UNCHANGED deployment
    /\ IF Unauthenticated(session)
       THEN Reject(ErrorResponse("DELETE /component/{uuid}", 401, "Authentication required"))
       ELSE IF InvalidUuid(componentUuid)
       THEN Reject(ErrorResponse("DELETE /component/{uuid}", 400, "Invalid component UUID"))
       ELSE IF componentUuid \notin DOMAIN db.teaComponent
       THEN Reject(ErrorResponse("DELETE /component/{uuid}", 404, "Component not found"))
       ELSE IF AccessDenied(db.teaComponent[componentUuid], session)
       THEN Reject(ErrorResponse("DELETE /component/{uuid}", 403, "Access denied"))
       ELSE /\ LET tx == ComponentCascade(db, componentUuid, failAt) IN
               /\ db' \in tx.stores
               /\ response' = IF tx.threw
                              THEN InternalError("DELETE /component/{uuid}")
                              ELSE Response("DELETE /component/{uuid}", 204, EmptyObject)
            /\ UNCHANGED <<generated, inflight>>

(* ------------------------------ releases ------------------------------ *)

\* A lookup that takes the rows of every component.
ProductComponentsOf_Mutant(s, componentUuid) == s.teaProductComponent

\* teaProductComponent.findFirst({ where: { componentUuid } }): the rows it
\* may return (none: null); which of several is the store's choice.
ProductComponentsOf(s, componentUuid) ==
    {row \in s.teaProductComponent : row.componentUuid = componentUuid}

\* A tag that is the version.
ReleaseTag_Mutant(version) == <<version>>

\* tag: `v${requestBody.version}`, the text kept as its two pieces
ReleaseTag(version) == <<"v", version>>

\* POST /release, up to and with teaRelease.create
PostRelease(session, body, fault) ==
    /\ inflight = NoRequest
    /\ UNCHANGED deployment
    /\ IF Unauthenticated(session)
       THEN Reject(ErrorResponse("POST /release", 401, "Authentication required"))
       ELSE IF Falsy(body, "componentIdentifier")
       THEN Reject(ErrorResponse("POST /release", 400,
                                 "Missing required field: componentIdentifier"))
       ELSE IF Falsy(body, "version")
       THEN Reject(ErrorResponse("POST /release", 400, "Missing required field: version"))
       ELSE IF Falsy(body, "releaseDate")
       THEN Reject(ErrorResponse("POST /release", 400, "Missing required field: releaseDate"))
       ELSE IF InvalidUuid(body.componentIdentifier)
       THEN Reject(ErrorResponse("POST /release", 400, "Invalid component UUID format"))
       ELSE IF body.componentIdentifier \notin DOMAIN db.teaComponent
       THEN Reject(ErrorResponse("POST /release", 404, "Component not found"))
       ELSE IF AccessDenied(db.teaComponent[body.componentIdentifier], session)
       THEN Reject(ErrorResponse("POST /release", 403, "Access denied to component"))
       ELSE IF ProductComponentsOf(db, body.componentIdentifier) = {}
       THEN Reject(ErrorResponse("POST /release", 404,
                                 "Component not associated with any product"))
       ELSE /\ generated.release < MaxReleases
            /\ generated' = [generated EXCEPT !.release = @ + 1]
            /\ \E productComponent \in ProductComponentsOf(db, body.componentIdentifier) :
               LET releaseUuid == ReleasePool[generated.release + 1]
                   row == [productUuid |-> productComponent.productUuid,
                           tag |-> ReleaseTag(body.version),
                           version |-> body.version,
                           name |-> Null,
                           prerelease |-> IF Has(body, "preRelease")
                                          THEN body.preRelease ELSE FALSE,
                           draft |-> FALSE,
                           orgId |-> OrgIdOf(session),
                           createdAt |-> Now,
                           updatedAt |-> Now]
               IN  IF fault \/ ~ReleaseCreateOk(db, row)
                   THEN /\ response' = InternalError("POST /release")
                        /\ UNCHANGED <<db, inflight>>
                   ELSE /\ db' = [db EXCEPT !.teaRelease = Put(@, releaseUuid, row)]
                        /\ inflight' = [op |-> "POST /release", uuid |-> releaseUuid,
                                        link |-> body.componentIdentifier,
                                        created |-> row]
                        /\ UNCHANGED response

\* POST /release, teaReleaseComponent.create and the response
PostReleaseLink(fault) ==
    /\ inflight.op = "POST /release"
    /\ inflight' = NoRequest
    /\ UNCHANGED <<deployment, generated>>
    /\ LET row == [releaseUuid |-> inflight.uuid, componentUuid |-> inflight.link] IN
       IF fault \/ ~ReleaseComponentCreateOk(db, row)
       THEN /\ response' = InternalError("POST /release")
            /\ UNCHANGED db
       ELSE /\ db' = ReleaseComponentCreate(db, row)
            /\ response' = Response("POST /release", 201,
                                    [identifier |-> inflight.uuid,
                                     productUuid |-> inflight.created.productUuid,
                                     tag |-> inflight.created.tag,
                                     version |-> inflight.created.version,
                                     prerelease |-> inflight.created.prerelease,
                                     draft |-> inflight.created.draft,
                                     components |-> {inflight.link}])

\* DELETE /release/{uuid}: the cascade of the transaction.
ReleaseCascade(s, releaseUuid, failAt) ==
    LET s1 == ReleaseComponentDeleteMany(s, {releaseUuid}, {})
        threw == failAt # 0 \/ ~ReleaseDeleteOk(s1, {releaseUuid})
        reached == IF failAt = 1 THEN s ELSE s1
    IN  [threw |-> threw,
         stores |-> IF threw THEN Rollback(s, reached)
                    ELSE {ReleaseDelete(s1, {releaseUuid})}]

\* DELETE /release/{uuid}
DeleteRelease(session, releaseUuid, failAt) ==
    /\ UNCHANGED deployment
    /\ IF Unauthenticated(session)
       THEN Reject(ErrorResponse("DELETE /release/{uuid}", 401, "Authentication required"))
       ELSE IF InvalidUuid(releaseUuid)
       THEN Reject(ErrorResponse("DELETE /release/{uuid}", 400, "Invalid release UUID"))
       ELSE IF releaseUuid \notin DOMAIN db.teaRelease
       THEN Reject(ErrorResponse("DELETE /release/{uuid}", 404, "Release not found"))
       ELSE IF AccessDenied(db.teaRelease[releaseUuid], session)
       THEN Reject(ErrorResponse("DELETE /release/{uuid}", 403, "Access denied"))
       ELSE /\ LET tx == ReleaseCascade(db, releaseUuid, failAt) IN
               /\ db' \in tx.stores
               /\ response' = IF tx.threw
                              THEN InternalError("DELETE /release/{uuid}")
                              ELSE Response("DELETE /release/{uuid}", 204, EmptyObject)
            /\ UNCHANGED <<generated, inflight>>

(* ----------------------------- collections ---------------------------- *)

\* `Collection created for release ${releaseIdentifier}`, by the position of
\* the release uuid in its pool.
CreatedForRelease ==
    <<"Collection created for release r1", "Collection created for release r2",
      "Collection created for release r3", "Collection created for release r4">>

ReleaseOrdinal(releaseUuid) ==
    CHOOSE i \in DOMAIN ReleasePool : ReleasePool[i] = releaseUuid

\* functions/collection.ts: the lifecycle of a new Collection
createInitialLifecycle(releaseIdentifier) ==
    [phase |-> "created",
     name |-> "Collection Created",
     description |-> CreatedForRelease[ReleaseOrdinal(releaseIdentifier)],
     startedOn |-> Now,
     completedOn |-> Null,
     lastUpdated |-> Now]

\* collection.ts: the lifecycle of a new Collection in the session copy
InitialLifecycleSession ==
    [phase |-> "created",
     startedOn |-> Now,
     description |-> "Collection created for release"]

getPhaseDisplayName(phase) ==
    CASE phase = "created" -> "Collection Created"
      [] phase = "in-progress" -> "In Progress"
      [] phase = "updated" -> "Updated"
      [] phase = "completed" -> "Completed"
      [] phase = "archived" -> "Archived"
      [] phase = "deprecated" -> "Deprecated"
      [] OTHER -> "Unknown Phase"

\* A transition that leaves lastUpdated as it was.
transitionLifecycle_Mutant(currentLifecycle, newPhase, description) ==
    Spread(currentLifecycle,
           [phase |-> newPhase,
            name |-> getPhaseDisplayName(newPhase),
            description |-> IF description \notin {Absent, ""}
                            THEN description
                            ELSE Get(currentLifecycle, "description"),
            completedOn |-> IF newPhase \in {"completed", "archived", "deprecated"}
                            THEN Later
                            ELSE Get(currentLifecycle, "completedOn")])

\* A transition that leaves completedOn as it was.
transitionLifecycle_MutantCompletedOn(currentLifecycle, newPhase, description) ==
    Spread(currentLifecycle,
           [phase |-> newPhase,
            name |-> getPhaseDisplayName(newPhase),
            description |-> IF description \notin {Absent, ""}
                            THEN description
                            ELSE Get(currentLifecycle, "description"),
            lastUpdated |-> Later,
            completedOn |-> Get(currentLifecycle, "completedOn")])

transitionLifecycle(currentLifecycle, newPhase, description) ==
    Spread(currentLifecycle,
           [phase |-> newPhase,
            name |-> getPhaseDisplayName(newPhase),
            description |-> IF description \notin {Absent, ""}
                            THEN description
                            ELSE Get(currentLifecycle, "description"),
            lastUpdated |-> Later,
            completedOn |-> IF newPhase \in {"completed", "archived", "deprecated"}
                            THEN Later
                            ELSE Get(currentLifecycle, "completedOn")])

\* A table that lets a collection in progress go back to `created`.
validTransitions_Mutant ==
    ("created" :> {"in-progress", "completed", "archived"}) @@
    ("in-progress" :> {"created", "updated", "completed", "archived"}) @@
    ("updated" :> {"in-progress", "completed", "archived"}) @@
    ("completed" :> {"archived", "deprecated"}) @@
    ("archived" :> {"deprecated"}) @@
    ("deprecated" :> {})

validTransitions ==
    ("created" :> {"in-progress", "completed", "archived"}) @@
    ("in-progress" :> {"updated", "completed", "archived"}) @@
    ("updated" :> {"in-progress", "completed", "archived"}) @@
    ("completed" :> {"archived", "deprecated"}) @@
    ("archived" :> {"deprecated"}) @@
    ("deprecated" :> {})

\* A validation that accepts every phase of the six from every phase.
isValidPhaseTransition_Mutant(currentPhase, newPhase) == newPhase \in Phases

\* validTransitions[currentPhase]?.includes(newPhase) || false
isValidPhaseTransition(currentPhase, newPhase) ==
    /\ currentPhase \in DOMAIN validTransitions
    /\ newPhase \in validTransitions[currentPhase]

\* The name and the description POST /collection gives a Collection: template
\* strings, kept as the sequence of their pieces.
CollectionName(release, product) ==
    <<"Collection for ", product.name, " v", release.version>>

CollectionDescription(releaseIdentifier, updateReason) ==
    <<"Collection created for release ", releaseIdentifier,
      ". Update reason: ", updateReason.type>>
    \o (IF Falsy(updateReason, "comment") THEN << >> ELSE <<" - ", updateReason.comment>>)

\* collection.products.map(p => p.uuid)
ProductsOfCollection(s, collectionUuid) ==
    {link[2] : link \in {l \in s.teaCollectionProducts : l[1] = collectionUuid}}

\* POST /collection, up to and with teaCollection.create
PostCollection(session, body, fault) ==
    /\ inflight = NoRequest
    /\ UNCHANGED deployment
    /\ IF Unauthenticated(session)
       THEN Reject(ErrorResponse("POST /collection", 401, "Authentication required"))
       ELSE IF Falsy(body, "releaseIdentifier")
       THEN Reject(ErrorResponse("POST /collection", 400,
                                 "Missing required field: releaseIdentifier"))
       ELSE IF ~Has(body, "updateReason") \/ Falsy(body.updateReason, "type")
       THEN Reject(ErrorResponse("POST /collection", 400,
                                 "Missing required field: updateReason.type"))
       ELSE IF InvalidUuid(body.releaseIdentifier)
       THEN Reject(ErrorResponse("POST /collection", 400, "Invalid release UUID format"))
       ELSE IF body.releaseIdentifier \notin DOMAIN db.teaRelease
       THEN Reject(ErrorResponse("POST /collection", 404, "Release not found"))
       ELSE IF AccessDenied(db.teaRelease[body.releaseIdentifier], session)
       THEN Reject(ErrorResponse("POST /collection", 403, "Access denied to release"))
       ELSE /\ generated.collection < MaxCollections
            /\ generated' = [generated EXCEPT !.collection = @ + 1]
            /\ LET collectionUuid == CollectionPool[generated.collection + 1]
                   existingRelease == db.teaRelease[body.releaseIdentifier]
                   row == [name |-> CollectionName(existingRelease,
                                                   db.teaProduct[existingRelease.productUuid]),
                           description |-> CollectionDescription(body.releaseIdentifier,
                                                                 body.updateReason),
                           artifacts |-> JSONstringify(IF Has(body, "artifacts")
                                                       THEN body.artifacts ELSE << >>),
                           lifecycle |-> IF deployment = "session"
                                         THEN JSONstringifyObject(InitialLifecycleSession)
                                         ELSE JSONstringifyObject(
                                                  createInitialLifecycle(body.releaseIdentifier)),
                           orgId |-> OrgIdOf(session),
                           updatedAt |-> Now]
               IN  IF fault
                   THEN /\ response' = InternalError("POST /collection")
                        /\ UNCHANGED <<db, inflight>>
                   ELSE /\ db' = [db EXCEPT !.teaCollection = Put(@, collectionUuid, row)]
                        /\ inflight' = [op |-> "POST /collection", uuid |-> collectionUuid,
                                        link |-> existingRelease.productUuid,
                                        created |-> row]
                        /\ UNCHANGED response

\* POST /collection, the update that connects the product, and the response
PostCollectionLink(fault) ==
    /\ inflight.op = "POST /collection"
    /\ inflight' = NoRequest
    /\ UNCHANGED <<deployment, generated>>
    /\ IF fault \/ ~CollectionConnectOk(db, inflight.uuid, inflight.link)
       THEN /\ response' = InternalError("POST /collection")
            /\ UNCHANGED db
       ELSE /\ db' = CollectionConnect(db, inflight.uuid, inflight.link)
            /\ response' = Response("POST /collection", 201,
                                    [identifier |-> inflight.uuid,
                                     name |-> inflight.created.name,
                                     description |-> inflight.created.description,
                                     artifacts |-> JSONparse(inflight.created.artifacts, << >>),
                                     lifecycle |-> JSONparse(inflight.created.lifecycle,
                                                             EmptyObject),
                                     products |-> {inflight.link}])

\* GET /collection/{uuid}
GetCollection(session, collectionUuid) ==
    /\ UNCHANGED deployment
    /\ IF Unauthenticated(session)
       THEN Reject(ErrorResponse("GET /collection/{uuid}", 401, "Authentication required"))
       ELSE IF InvalidUuid(collectionUuid)
       THEN Reject(ErrorResponse("GET /collection/{uuid}", 400, "Invalid collection UUID"))
       ELSE IF collectionUuid \notin DOMAIN db.teaCollection
       THEN Reject(ErrorResponse("GET /collection/{uuid}", 404, "Collection not found"))
       ELSE IF AccessDenied(db.teaCollection[collectionUuid], session)
       THEN Reject(ErrorResponse("GET /collection/{uuid}", 403, "Access denied"))
       ELSE LET collection == db.teaCollection[collectionUuid]
                lifecycle == JSONparse(collection.lifecycle, EmptyObject)
                artifacts == JSONparse(collection.artifacts, << >>)
            IN  Reject(Response("GET /collection/{uuid}", 200,
                    IF deployment = "session"
                    THEN [uuid |-> collectionUuid, artifacts |-> artifacts]
                    ELSE [uuid |-> collectionUuid,
                          name |-> collection.name,
                          description |-> collection.description,
                          artifacts |-> artifacts,
                          lifecycle |-> lifecycle,
                          products |-> ProductsOfCollection(db, collectionUuid)]))

\* The fields of updateData that both copies of PATCH /collection/{uuid}
\* take from the request body as they are.
UpdateData(requestBody) ==
    [updatedAt |-> Now]
    @@ (IF Has(requestBody, "name") THEN [name |-> requestBody.name] ELSE EmptyObject)
    @@ (IF Has(requestBody, "description")
        THEN [description |-> requestBody.description] ELSE EmptyObject)
    @@ (IF Has(requestBody, "artifacts")
        THEN [artifacts |-> JSONstringify(requestBody.artifacts)] ELSE EmptyObject)

\* An update that keeps the fields the row has.
CollectionUpdate_Mutant(s, collectionUuid, data) ==
    [s EXCEPT !.teaCollection[collectionUuid] = Spread(data, @)]

\* teaCollection.update({ where: { uuid }, data })
CollectionUpdate(s, collectionUuid, data) ==
    [s EXCEPT !.teaCollection[collectionUuid] = Spread(@, data)]

\* updateData of PATCH /collection/{uuid} of the functions copy: the fields of
\* the body and, for a body with a lifecycle or with artifacts, the lifecycle
\* computed from the one of the row that findUnique returned.
CollectionUpdateData(existingCollection, requestBody) ==
    LET currentLifecycle == JSONparse(existingCollection.lifecycle, EmptyObject)
        newLifecycle ==
            IF Has(requestBody, "lifecycle")
            THEN transitionLifecycle(currentLifecycle,
                                     Get(requestBody.lifecycle, "phase"),
                                     Get(requestBody.lifecycle, "description"))
            ELSE transitionLifecycle(currentLifecycle, "updated",
                                     "Collection artifacts have been updated")
    IN  IF Has(requestBody, "lifecycle") \/ Has(requestBody, "artifacts")
        THEN [lifecycle |-> JSONstringifyObject(newLifecycle)] @@ UpdateData(requestBody)
        ELSE UpdateData(requestBody)

\* PATCH /collection/{uuid} of the functions copy
PatchCollection(collectionUuid, requestBody, fault) ==
    /\ deployment = "functions"
    /\ UNCHANGED deployment
    /\ IF InvalidUuid(collectionUuid)
       THEN Reject(ErrorResponse("PATCH /collection/{uuid}", 400, "Invalid collection UUID"))
       ELSE IF collectionUuid \notin DOMAIN db.teaCollection
       THEN Reject(ErrorResponse("PATCH /collection/{uuid}", 404, "Collection not found"))
       ELSE LET existingCollection == db.teaCollection[collectionUuid]
                currentLifecycle == JSONparse(existingCollection.lifecycle, EmptyObject)
                updateData == CollectionUpdateData(existingCollection, requestBody)
                updated == CollectionUpdate(db, collectionUuid, updateData)
                updatedCollection == updated.teaCollection[collectionUuid]
                updateReasonType ==
                    IF Has(requestBody, "artifacts") THEN "ARTIFACT_UPDATED"
                    ELSE IF Has(requestBody, "lifecycle") THEN "LIFECYCLE_UPDATED"
                    ELSE IF Has(requestBody, "name") \/ Has(requestBody, "description")
                    THEN "METADATA_UPDATED"
                    ELSE "COLLECTION_UPDATED"
            IN  IF /\ Has(requestBody, "lifecycle")
                   /\ ~isValidPhaseTransition(Get(currentLifecycle, "phase"),
                                              Get(requestBody.lifecycle, "phase"))
                THEN Reject(ErrorResponse("PATCH /collection/{uuid}", 400,
                                          "Invalid lifecycle phase transition"))
                ELSE IF fault
                THEN Reject(InternalError("PATCH /collection/{uuid}"))
                ELSE /\ db' = updated
                     /\ response' =
                            Response("PATCH /collection/{uuid}", 200,
                                     [uuid |-> collectionUuid,
                                      name |-> updatedCollection.name,
                                      description |-> updatedCollection.description,
                                      updateReason |-> updateReasonType,
                                      artifacts |-> JSONparse(updatedCollection.artifacts, << >>),
                                      lifecycle |-> JSONparse(updatedCollection.lifecycle,
                                                              EmptyObject),
                                      products |-> ProductsOfCollection(updated, collectionUuid)])
                     /\ UNCHANGED <<generated, inflight>>

\* PATCH /collection/{uuid} of the functions copy up to its second await: the
\* handler has read the row with findUnique, has accepted the phase transition
\* and holds the row it read while other requests are served.  (A request
\* that is answered before the update is a step of PatchCollection.)
PatchCollectionFindUnique(collectionUuid, requestBody) ==
    /\ deployment = "functions"
    /\ inflight = NoRequest
    /\ ~InvalidUuid(collectionUuid)
    /\ collectionUuid \in DOMAIN db.teaCollection
    /\ LET existingCollection == db.teaCollection[collectionUuid]
           currentLifecycle == JSONparse(existingCollection.lifecycle, EmptyObject)
       IN  /\ Has(requestBody, "lifecycle")
                => isValidPhaseTransition(Get(currentLifecycle, "phase"),
                                          Get(requestBody.lifecycle, "phase"))
           /\ inflight' = [op |-> "PATCH /collection/{uuid}", uuid |-> collectionUuid,
                           existingCollection |-> existingCollection,
                           requestBody |-> requestBody]
    /\ UNCHANGED <<deployment, db, generated, response>>

\* ... and from its second await: teaCollection.update with the updateData
\* built from the row read earlier, and the answer.  An update of a row that
\* is gone throws.
PatchCollectionUpdate(fault) ==
    /\ inflight.op = "PATCH /collection/{uuid}"
    /\ inflight' = NoRequest
    /\ UNCHANGED <<deployment, generated>>
    /\ IF fault \/ inflight.uuid \notin DOMAIN db.teaCollection
       THEN /\ response' = InternalError("PATCH /collection/{uuid}")
            /\ UNCHANGED db
       ELSE LET requestBody == inflight.requestBody
                updateData == CollectionUpdateData(inflight.existingCollection, requestBody)
                updated == CollectionUpdate(db, inflight.uuid, updateData)
                updatedCollection == updated.teaCollection[inflight.uuid]
                updateReasonType ==
                    IF Has(requestBody, "artifacts") THEN "ARTIFACT_UPDATED"
                    ELSE IF Has(requestBody, "lifecycle") THEN "LIFECYCLE_UPDATED"
                    ELSE IF Has(requestBody, "name") \/ Has(requestBody, "description")
                    THEN "METADATA_UPDATED"
                    ELSE "COLLECTION_UPDATED"
            IN  /\ db' = updated
                /\ response' =
                        Response("PATCH /collection/{uuid}", 200,
                                 [uuid |-> inflight.uuid,
                                  name |-> updatedCollection.name,
                                  description |-> updatedCollection.description,
                                  updateReason |-> updateReasonType,
                                  artifacts |-> JSONparse(updatedCollection.artifacts, << >>),
                                  lifecycle |-> JSONparse(updatedCollection.lifecycle,
                                                          EmptyObject),
                                  products |-> ProductsOfCollection(updated, inflight.uuid)])

\* PATCH /collection/{uuid} of the session copy
PatchCollectionSession(session, collectionUuid, requestBody, fault) ==
    /\ deployment = "session"
    /\ UNCHANGED deployment
    /\ IF Unauthenticated(session)
       THEN Reject(ErrorResponse("PATCH /collection/{uuid}", 401, "Authentication required"))
       ELSE IF InvalidUuid(collectionUuid)
       THEN Reject(ErrorResponse("PATCH /collection/{uuid}", 400, "Invalid collection UUID"))
       ELSE IF collectionUuid \notin DOMAIN db.teaCollection
       THEN Reject(ErrorResponse("PATCH /collection/{uuid}", 404, "Collection not found"))
       ELSE IF AccessDenied(db.teaCollection[collectionUuid], session)
       THEN Reject(ErrorResponse("PATCH /collection/{uuid}", 403, "Access denied"))
       ELSE LET updateData ==
                    IF Has(requestBody, "lifecycle")
                    THEN [lifecycle |-> JSONstringifyObject(requestBody.lifecycle)]
                         @@ UpdateData(requestBody)
                    ELSE UpdateData(requestBody)
                updated == CollectionUpdate(db, collectionUuid, updateData)
                updatedCollection == updated.teaCollection[collectionUuid]
            IN  IF fault
                THEN Reject(InternalError("PATCH /collection/{uuid}"))
                ELSE /\ db' = updated
                     /\ response' =
                            Response("PATCH /collection/{uuid}", 200,
                                     [uuid |-> collectionUuid,
                                      updateReason |-> "ARTIFACT_UPDATED",
                                      artifacts |-> JSONparse(updatedCollection.artifacts, << >>)])
                     /\ UNCHANGED <<generated, inflight>>

\* DELETE /collection/{uuid}
DeleteCollection(session, collectionUuid, fault) ==
    /\ UNCHANGED deployment
    /\ IF Unauthenticated(session)
       THEN Reject(ErrorResponse("DELETE /collection/{uuid}", 401, "Authentication required"))
       ELSE IF InvalidUuid(collectionUuid)
       THEN Reject(ErrorResponse("DELETE /collection/{uuid}", 400, "Invalid collection UUID"))
       ELSE IF collectionUuid \notin DOMAIN db.teaCollection
       THEN Reject(ErrorResponse("DELETE /collection/{uuid}", 404, "Collection not found"))
       ELSE IF AccessDenied(db.teaCollection[collectionUuid], session)
       THEN Reject(ErrorResponse("DELETE /collection/{uuid}", 403, "Access denied"))
       ELSE IF fault
       THEN Reject(InternalError("DELETE /collection/{uuid}"))
       ELSE /\ db' = CollectionDelete(db, collectionUuid)
            /\ response' = Response("DELETE /collection/{uuid}", 204, EmptyObject)
            /\ UNCHANGED <<generated, inflight>>

\* The collections of every product.
CollectionReferences_Mutant(s, releaseUuid) == {link[1] : link \in s.teaCollectionProducts}

\* release.product.collections.map(c => c.uuid): the collections of the
\* product of the release.
CollectionReferences(s, releaseUuid) ==
    {link[1] : link \in {l \in s.teaCollectionProducts :
                            l[2] = s.teaRelease[releaseUuid].productUuid}}

\* GET /release/{uuid}
GetRelease(session, releaseUuid) ==
    /\ UNCHANGED deployment
    /\ IF Unauthenticated(session)
       THEN Reject(ErrorResponse("GET /release/{uuid}", 401, "Authentication required"))
       ELSE IF InvalidUuid(releaseUuid)
       THEN Reject(ErrorResponse("GET /release/{uuid}", 400, "Invalid release UUID"))
       ELSE IF releaseUuid \notin DOMAIN db.teaRelease
       THEN Reject(ErrorResponse("GET /release/{uuid}", 404, "Release not found"))
       ELSE IF AccessDenied(db.teaRelease[releaseUuid], session)
       THEN Reject(ErrorResponse("GET /release/{uuid}", 403, "Access denied"))
       ELSE LET release == db.teaRelease[releaseUuid] IN
            Reject(Response("GET /release/{uuid}", 200,
                [uuid |-> releaseUuid,
                 version |-> release.version,
                 collectionReferences |-> CollectionReferences(db, releaseUuid)]))

(* ----------------------- GET and PATCH of a row ----------------------- *)

\* The body of the answers of GET and PATCH /product/{uuid}.
ProductResponse(s, productUuid) ==
    LET product == s.teaProduct[productUuid] IN
    [identifier |-> productUuid,
     name |-> product.name,
     type |-> product.type,
     version |-> product.version,
     identifiers |-> JSONparse(product.identifiers, << >>),
     components |-> ComponentsOfProduct(s, productUuid)]

\* GET /product/{uuid}
GetProduct(session, productUuid) ==
    /\ deployment = "session"
    /\ UNCHANGED deployment
    /\ IF Unauthenticated(session)
       THEN Reject(ErrorResponse("GET /product/{uuid}", 401, "Authentication required"))
       ELSE IF InvalidUuid(productUuid)
       THEN Reject(ErrorResponse("GET /product/{uuid}", 400, "Invalid product UUID"))
       ELSE IF productUuid \notin DOMAIN db.teaProduct
       THEN Reject(ErrorResponse("GET /product/{uuid}", 404, "Product not found"))
       ELSE IF AccessDenied(db.teaProduct[productUuid], session)
       THEN Reject(ErrorResponse("GET /product/{uuid}", 403, "Access denied"))
       ELSE Reject(Response("GET /product/{uuid}", 200, ProductResponse(db, productUuid)))

\* updateData of PATCH /product/{uuid}: a field is taken when the body carries
\* it (!== undefined).
ProductUpdateData(requestBody) ==
    [updatedAt |-> Now]
    @@ (IF Has(requestBody, "name") THEN [name |-> requestBody.name] ELSE EmptyObject)
    @@ (IF Has(requestBody, "type") THEN [type |-> requestBody.type] ELSE EmptyObject)
    @@ (IF Has(requestBody, "version")
        THEN [version |-> requestBody.version] ELSE EmptyObject)
    @@ (IF Has(requestBody, "identifiers")
        THEN [identifiers |-> JSONstringify(requestBody.identifiers)] ELSE EmptyObject)

\* PATCH /product/{uuid}
PatchProduct(session, productUuid, requestBody, fault) ==
    /\ deployment = "session"
    /\ UNCHANGED deployment
    /\ IF Unauthenticated(session)
       THEN Reject(ErrorResponse("PATCH /product/{uuid}", 401, "Authentication required"))
       ELSE IF InvalidUuid(productUuid)
       THEN Reject(ErrorResponse("PATCH /product/{uuid}", 400, "Invalid product UUID"))
       ELSE IF productUuid \notin DOMAIN db.teaProduct
       THEN Reject(ErrorResponse("PATCH /product/{uuid}", 404, "Product not found"))
       ELSE IF AccessDenied(db.teaProduct[productUuid], session)
       THEN Reject(ErrorResponse("PATCH /product/{uuid}", 403, "Access denied"))
       ELSE IF fault
       THEN Reject(InternalError("PATCH /product/{uuid}"))
       ELSE /\ db' = [db EXCEPT !.teaProduct[productUuid] =
                            Spread(@, ProductUpdateData(requestBody))]
            /\ response' = Response("PATCH /product/{uuid}", 200,
                                    ProductResponse(db', productUuid))
            /\ UNCHANGED <<generated, inflight>>

\* The body of the answer of PATCH /component/{uuid}.
ComponentResponse(s, componentUuid) ==
    LET component == s.teaComponent[componentUuid] IN
    [identifier |-> componentUuid,
     name |-> component.name,
     type |-> component.type,
     version |-> component.version,
     identifiers |-> JSONparse(component.identifiers, << >>)]

\* GET /component/{uuid}
GetComponent(session, componentUuid) ==
    /\ UNCHANGED deployment
    /\ IF Unauthenticated(session)
       THEN Reject(ErrorResponse("GET /component/{uuid}", 401, "Authentication required"))
       ELSE IF InvalidUuid(componentUuid)
       THEN Reject(ErrorResponse("GET /component/{uuid}", 400, "Invalid component UUID"))
       ELSE IF componentUuid \notin DOMAIN db.teaComponent
       THEN Reject(ErrorResponse("GET /component/{uuid}", 404, "Component not found"))
       ELSE IF AccessDenied(db.teaComponent[componentUuid], session)
       THEN Reject(ErrorResponse("GET /component/{uuid}", 403, "Access denied"))
       ELSE LET component == db.teaComponent[componentUuid] IN
            Reject(Response("GET /component/{uuid}", 200,
                [uuid |-> componentUuid,
                 name |-> component.name,
                 identifiers |-> JSONparse(component.identifiers, << >>),
                 versions |-> IF component.version \in {Null, ""}
                              THEN << >> ELSE <<component.version>>,
                 releases |-> {row.releaseUuid :
                                 row \in {r \in db.teaReleaseComponent :
                                             r.componentUuid = componentUuid}}]))

\* updateData of PATCH /component/{uuid}: name and type are taken when they
\* are truthy, identifiers when it is truthy (every list is), version when the
\* body carries it.
ComponentUpdateData(requestBody) ==
    [updatedAt |-> Now]
    @@ (IF ~Falsy(requestBody, "name") THEN [name |-> requestBody.name] ELSE EmptyObject)
    @@ (IF ~Falsy(requestBody, "type") THEN [type |-> requestBody.type] ELSE EmptyObject)
    @@ (IF Has(requestBody, "version")
        THEN [version |-> requestBody.version] ELSE EmptyObject)
    @@ (IF Has(requestBody, "identifiers")
        THEN [identifiers |-> JSONstringify(requestBody.identifiers)] ELSE EmptyObject)

\* PATCH /component/{uuid}
PatchComponent(session, componentUuid, requestBody, fault) ==
    /\ UNCHANGED deployment
    /\ IF Unauthenticated(session)
       THEN Reject(ErrorResponse("PATCH /component/{uuid}", 401, "Authentication required"))
       ELSE IF InvalidUuid(componentUuid)
       THEN Reject(ErrorResponse("PATCH /component/{uuid}", 400, "Invalid component UUID"))
       ELSE IF componentUuid \notin DOMAIN db.teaComponent
       THEN Reject(ErrorResponse("PATCH /component/{uuid}", 404, "Component not found"))
       ELSE IF AccessDenied(db.teaComponent[componentUuid], session)
       THEN Reject(ErrorResponse("PATCH /component/{uuid}", 403, "Access denied"))
       ELSE IF fault
       THEN Reject(InternalError("PATCH /component/{uuid}"))
       ELSE /\ db' = [db EXCEPT !.teaComponent[componentUuid] =
                            Spread(@, ComponentUpdateData(requestBody))]
            /\ response' = Response("PATCH /component/{uuid}", 200,
                                    ComponentResponse(db', componentUuid))
            /\ UNCHANGED <<generated, inflight>>

\* updateData of PATCH /release/{uuid}: a field is taken when the body carries
\* it (!== undefined).
ReleaseUpdateData(requestBody) ==
    [updatedAt |-> Now]
    @@ (IF Has(requestBody, "tag") THEN [tag |-> requestBody.tag] ELSE EmptyObject)
    @@ (IF Has(requestBody, "version")
        THEN [version |-> requestBody.version] ELSE EmptyObject)
    @@ (IF Has(requestBody, "name") THEN [name |-> requestBody.name] ELSE EmptyObject)

\* PATCH /release/{uuid}
PatchRelease(session, releaseUuid, requestBody, fault) ==
    /\ UNCHANGED deployment
    /\ IF Unauthenticated(session)
       THEN Reject(ErrorResponse("PATCH /release/{uuid}", 401, "Authentication required"))
       ELSE IF InvalidUuid(releaseUuid)
       THEN Reject(ErrorResponse("PATCH /release/{uuid}", 400, "Invalid release UUID"))
       ELSE IF releaseUuid \notin DOMAIN db.teaRelease
       THEN Reject(ErrorResponse("PATCH /release/{uuid}", 404, "Release not found"))
       ELSE IF AccessDenied(db.teaRelease[releaseUuid], session)
       THEN Reject(ErrorResponse("PATCH /release/{uuid}", 403, "Access denied"))
       ELSE IF fault
       THEN Reject(InternalError("PATCH /release/{uuid}"))
       ELSE /\ db' = [db EXCEPT !.teaRelease[releaseUuid] =
                            Spread(@, ReleaseUpdateData(requestBody))]
            /\ response' = Response("PATCH /release/{uuid}", 200,
                                    [identifier |-> releaseUuid,
                                     productUuid |-> db'.teaRelease[releaseUuid].productUuid,
                                     tag |-> db'.teaRelease[releaseUuid].tag,
                                     version |-> db'.teaRelease[releaseUuid].version,
                                     name |-> db'.teaRelease[releaseUuid].name,
                                     components |->
                                        {row.componentUuid :
                                            row \in {r \in db.teaReleaseComponent :
                                                        r.releaseUuid = releaseUuid}}])
            /\ UNCHANGED <<generated, inflight>>

(* ------------------------- requests and Next -------------------------- *)

\* The sessions of the requests: one organisation in the session copy, no
\* session in the functions copy.
Callers == IF deployment = "session" THEN {"org1"} ELSE {NoSession}

ProductBodies == {[name |-> "libfoo", type |-> "library"]}

\* productIdentifier: a well-formed uuid, of an existing product or not; or
\* none.
ComponentBodies ==
    {[name |-> "core", type |-> "library", productIdentifier |-> productUuid] :
        productUuid \in ProductUuids}
    \cup {[name |-> "core", type |-> "library"]}

ReleaseBodies ==
    {[componentIdentifier |-> componentUuid, version |-> "1.0.0", releaseDate |-> Now] :
        componentUuid \in ComponentUuids}

CollectionBodies ==
    {[releaseIdentifier |-> releaseUuid,
      updateReason |-> [type |-> "INITIAL_RELEASE"],
      artifacts |-> <<"A">>] : releaseUuid \in ReleaseUuids}

\* The store calls of a cascade that may fail: 0 is none.
CascadeFaults == 0..5

Next ==
    \/ \E session \in Callers, body \in ProductBodies : PostProduct(session, body)
    \/ \E session \in Callers, productUuid \in ProductUuids, failAt \in CascadeFaults,
          done \in SUBSET ReleaseUuids :
            DeleteProduct(session, productUuid, failAt, done)
    \/ \E session \in Callers, body \in ComponentBodies, fault \in StoreFaults :
            PostComponent(session, body, fault)
    \/ \E fault \in StoreFaults : PostComponentLink(fault)
    \/ \E session \in Callers, componentUuid \in ComponentUuids, failAt \in 0..3 :
            DeleteComponent(session, componentUuid, failAt)
    \/ \E session \in Callers, body \in ReleaseBodies, fault \in StoreFaults :
            PostRelease(session, body, fault)
    \/ \E fault \in StoreFaults : PostReleaseLink(fault)
    \/ \E session \in Callers, releaseUuid \in ReleaseUuids, failAt \in 0..2 :
            DeleteRelease(session, releaseUuid, failAt)
    \/ \E session \in Callers, releaseUuid \in ReleaseUuids : GetRelease(session, releaseUuid)
    \/ \E session \in Callers, body \in CollectionBodies, fault \in StoreFaults :
            PostCollection(session, body, fault)
    \/ \E fault \in StoreFaults : PostCollectionLink(fault)
    \/ \E session \in Callers, collectionUuid \in CollectionUuids, fault \in StoreFaults :
            DeleteCollection(session, collectionUuid, fault)
    \/ \E session \in Callers, collectionUuid \in CollectionUuids :
            GetCollection(session, collectionUuid)

Spec == Init /\ [][Next]_vars

(* ------------------- the lifecycle of a Collection -------------------- *)

\* The objects with at most the one key, its value drawn from `values`.
Optional(key, values) == {EmptyObject} \cup {key :> value : value \in values}

\* requestBody.lifecycle: a phase of the table or another string or none,
\* with or without a description.
LifecycleRequests ==
    {phase @@ description :
        phase \in Optional("phase", Phases \cup {"bogus"}),
        description \in Optional("description", {"reviewed"})}

\* UpdateTeaCollectionRequest: every field is optional.
PatchBodies ==
    {name @@ description @@ artifacts @@ lifecycle :
        name \in Optional("name", {<<"renamed">>}),
        description \in Optional("description", {<<"described">>}),
        artifacts \in Optional("artifacts", {<<"B">>}),
        lifecycle \in Optional("lifecycle", LifecycleRequests)}

\* The store after POST /product, POST /component and POST /release have
\* each been served once.
ReleasedStore(orgId) ==
    [EmptyStore EXCEPT
        !.teaProduct = Put(@, ProductPool[1],
                           [name |-> "libfoo", type |-> "library", version |-> Null,
                            identifiers |-> JSONstringify(<< >>), orgId |-> orgId,
                            createdAt |-> Now, updatedAt |-> Now]),
        !.teaComponent = Put(@, ComponentPool[1],
                             [name |-> "core", type |-> "library", version |-> Null,
                              identifiers |-> JSONstringify(<< >>), orgId |-> orgId,
                              createdAt |-> Now, updatedAt |-> Now]),
        !.teaRelease = Put(@, ReleasePool[1],
                           [productUuid |-> ProductPool[1], tag |-> ReleaseTag("1.0.0"),
                            version |-> "1.0.0", name |-> Null, prerelease |-> FALSE,
                            draft |-> FALSE, orgId |-> orgId,
                            createdAt |-> Now, updatedAt |-> Now]),
        !.teaProductComponent =
            {[id |-> 1, productUuid |-> ProductPool[1], componentUuid |-> ComponentPool[1]]},
        !.teaReleaseComponent =
            {[id |-> 1, releaseUuid |-> ReleasePool[1], componentUuid |-> ComponentPool[1]]}]

LifecycleInit ==
    /\ deployment \in Deployments
    /\ db = ReleasedStore(IF deployment = "session" THEN "org1" ELSE NoOrg)
    /\ generated = [product |-> 1, component |-> 1, release |-> 1, collection |-> 0]
    /\ inflight = NoRequest
    /\ response = Response("POST /release", 201,
                           [identifier |-> ReleasePool[1], productUuid |-> ProductPool[1],
                            tag |-> ReleaseTag("1.0.0"), version |-> "1.0.0",
                            prerelease |-> FALSE, draft |-> FALSE,
                            components |-> {ComponentPool[1]}])

LifecycleNext ==
    \/ \E session \in Callers, body \in CollectionBodies : PostCollection(session, body, FALSE)
    \/ PostCollectionLink(FALSE)
    \/ \E collectionUuid \in CollectionUuids, requestBody \in PatchBodies :
            PatchCollection(collectionUuid, requestBody, FALSE)
    \/ \E session \in Callers, collectionUuid \in CollectionUuids,
          requestBody \in PatchBodies :
            PatchCollectionSession(session, collectionUuid, requestBody, FALSE)
    \/ \E session \in Callers, collectionUuid \in CollectionUuids :
            GetCollection(session, collectionUuid)

LifecycleSpec == LifecycleInit /\ [][LifecycleNext]_vars

(* --------------------- properties of the lifecycle -------------------- *)

\* The phase of the lifecycle a Collection row stores.
StoredPhase(s, collectionUuid) ==
    Get(JSONparse(s.teaCollection[collectionUuid].lifecycle, EmptyObject), "phase")

StoredLifecycle(s, collectionUuid) ==
    JSONparse(s.teaCollection[collectionUuid].lifecycle, EmptyObject)

\* The request bodies that carry a lifecycle field, and those that carry
\* artifacts and no lifecycle field.
LifecyclePatchBodies == {body \in PatchBodies : Has(body, "lifecycle")}

ArtifactsOnlyPatchBodies ==
    {body \in PatchBodies : Has(body, "artifacts") /\ ~Has(body, "lifecycle")}

\* The transition table of the specification, pair by pair.
TransitionTable ==
    {<<"created", "in-progress">>, <<"created", "completed">>, <<"created", "archived">>,
     <<"in-progress", "updated">>, <<"in-progress", "completed">>,
     <<"in-progress", "archived">>,
     <<"updated", "in-progress">>, <<"updated", "completed">>, <<"updated", "archived">>,
     <<"completed", "archived">>, <<"completed", "deprecated">>,
     <<"archived", "deprecated">>}

C2_DeprecatedIsTerminal ==
    [][deployment = "functions" =>
        \A collectionUuid \in DOMAIN db.teaCollection \cap DOMAIN db'.teaCollection :
            StoredPhase(db, collectionUuid) = "deprecated" =>
                StoredPhase(db', collectionUuid) = "deprecated"]_vars

\* C3: every stored Collection has a lifecycle whose phase is one of the six
\* phases.
C3_PhaseIsOneOfSix ==
    \A collectionUuid \in DOMAIN db.teaCollection :
        StoredPhase(db, collectionUuid) \in Phases

\* C4: a PATCH /collection/{uuid} with artifacts and no lifecycle field stores
\* phase `updated` and the description 'Collection artifacts have been
\* updated' whatever the phase was; with artifacts and a lifecycle field it
\* stores the requested phase when the table has the transition and nothing
\* otherwise.
C4_ArtifactsForceUpdated ==
    [][response'.op = "PATCH /collection/{uuid}" =>
        \A collectionUuid \in DOMAIN db.teaCollection, session \in Callers :
          /\ \A requestBody \in ArtifactsOnlyPatchBodies :
                \/ PatchCollection(collectionUuid, requestBody, FALSE)
                \/ PatchCollectionSession(session, collectionUuid, requestBody, FALSE)
                => /\ StoredPhase(db', collectionUuid) = "updated"
                   /\ Get(StoredLifecycle(db', collectionUuid), "description")
                        = "Collection artifacts have been updated"
          /\ \A requestBody \in {body \in LifecyclePatchBodies : Has(body, "artifacts")} :
                \/ PatchCollection(collectionUuid, requestBody, FALSE)
                \/ PatchCollectionSession(session, collectionUuid, requestBody, FALSE)
                => IF <<StoredPhase(db, collectionUuid),
                        Get(requestBody.lifecycle, "phase")>> \in TransitionTable
                   THEN StoredPhase(db', collectionUuid) = requestBody.lifecycle.phase
                   ELSE db' = db]_vars

\* C5: a PATCH /collection/{uuid} with an empty body leaves the stored name,
\* description, artifacts and lifecycle of the Collection as they were; an
\* accepted PATCH whose body carries artifacts stores exactly the list of the
\* body, whatever the stored list was.
C5_PatchFrame ==
    [][response'.op = "PATCH /collection/{uuid}" =>
        \A collectionUuid \in DOMAIN db.teaCollection, session \in Callers :
          /\ \/ PatchCollection(collectionUuid, EmptyObject, FALSE)
             \/ PatchCollectionSession(session, collectionUuid, EmptyObject, FALSE)
             => /\ response'.status = 200
                /\ \A field \in {"name", "description", "artifacts", "lifecycle"} :
                        db'.teaCollection[collectionUuid][field]
                            = db.teaCollection[collectionUuid][field]
          /\ \A requestBody \in {body \in PatchBodies : Has(body, "artifacts")} :
                /\ \/ PatchCollection(collectionUuid, requestBody, FALSE)
                   \/ PatchCollectionSession(session, collectionUuid, requestBody, FALSE)
                /\ response'.status = 200
                => /\ JSONparse(db'.teaCollection[collectionUuid].artifacts, << >>)
                        = requestBody.artifacts
                   /\ response'.data.artifacts = requestBody.artifacts]_vars

\* A Collection created with artifacts [A] holds [B] after a PATCH, and a
\* PATCH with an empty body has been answered since.
C5_Witness ==
    /\ response.op = "PATCH /collection/{uuid}"
    /\ response.status = 200
    /\ deployment = "functions"
    /\ response.data.updateReason = "COLLECTION_UPDATED"
    /\ response.data.artifacts = <<"B">>
    /\ \E collectionUuid \in DOMAIN db.teaCollection :
            JSONparse(db.teaCollection[collectionUuid].artifacts, << >>) = <<"B">>

(* ------------------- properties of the relational core ---------------- *)

CascadeDeletes ==
    {"DELETE /product/{uuid}", "DELETE /component/{uuid}", "DELETE /release/{uuid}"}

\* The step is a request of `ops` served and answered with `status`: the one
\* step that leaves the last response as it was is the first write of a POST,
\* which changes `inflight`.
Answered(ops, status) ==
    /\ response'.op \in ops
    /\ response'.status = status
    /\ inflight' = inflight

\* C6: when DELETE /product/{uuid} answers 204 the store holds no
\* ProductComponent row of the product, no Release of the product, no
\* ReleaseComponent row of a Release the product had, and no row of the
\* product.
C6_ProductCascade ==
    [][Answered({"DELETE /product/{uuid}"}, 204) =>
        \E productUuid \in DOMAIN db.teaProduct :
            /\ DOMAIN db'.teaProduct = DOMAIN db.teaProduct \ {productUuid}
            /\ \A row \in db'.teaProductComponent : row.productUuid # productUuid
            /\ ReleasesOfProduct(db', productUuid) = {}
            /\ \A row \in db'.teaReleaseComponent :
                    row.releaseUuid \notin ReleasesOfProduct(db, productUuid)
            /\ DOMAIN db'.teaRelease \cap ReleasesOfProduct(db, productUuid) = {}]_vars

\* DELETE /product/{uuid} has answered 204 in a store where both products had
\* components and releases: no product, no release and no association row is
\* left, and the components are.
C6_Witness ==
    /\ response.op = "DELETE /product/{uuid}"
    /\ response.status = 204
    /\ generated.product = MaxProducts
    /\ generated.release = MaxReleases
    /\ DOMAIN db.teaProduct = {}
    /\ DOMAIN db.teaRelease = {}
    /\ DOMAIN db.teaComponent = ComponentUuids
    /\ db.teaProductComponent = {}
    /\ db.teaReleaseComponent = {}

\* C7: a cascade delete (of a Product, a Component or a Release) that answers
\* 500 leaves the store exactly as it was before the request.
C7_CascadeAllOrNothing ==
    [][Answered(CascadeDeletes, 500) => db' = db]_vars

\* C8: when POST /component has answered, the Component row the request
\* created and its ProductComponent row are both in the store or neither is.
C8_ComponentWithAssociation ==
    [][inflight.op = "POST /component" /\ response'.op = "POST /component" =>
        (inflight.uuid \in DOMAIN db'.teaComponent
            <=> \E row \in db'.teaProductComponent : row.componentUuid = inflight.uuid)]_vars

\* C9: no GET /collection/{uuid} served between the two writes of a POST
\* /collection shows the Collection the POST created without a product.
C9_CreateAndLinkAtomic ==
    ~ /\ inflight.op = "POST /collection"
      /\ response.op = "GET /collection/{uuid}"
      /\ response.status = 200
      /\ response.data.uuid = inflight.uuid
      /\ Has(response.data, "products")
      /\ response.data.products = {}

\* C10: every ProductComponent row references an existing Product and an
\* existing Component, every ReleaseComponent row an existing Release and an
\* existing Component, every Release an existing Product, and every
\* Collection-Product link an existing Collection and an existing Product.
C10_NoDanglingReferences ==
    /\ \A row \in db.teaProductComponent :
            /\ row.productUuid \in DOMAIN db.teaProduct
            /\ row.componentUuid \in DOMAIN db.teaComponent
    /\ \A row \in db.teaReleaseComponent :
            /\ row.releaseUuid \in DOMAIN db.teaRelease
            /\ row.componentUuid \in DOMAIN db.teaComponent
    /\ \A releaseUuid \in DOMAIN db.teaRelease :
            db.teaRelease[releaseUuid].productUuid \in DOMAIN db.teaProduct
    /\ \A link \in db.teaCollectionProducts :
            /\ link[1] \in DOMAIN db.teaCollection
            /\ link[2] \in DOMAIN db.teaProduct

\* A product has been deleted with its rows, and rows of every association
\* table are left for the other product.
C10_Witness ==
    /\ response.op = "DELETE /product/{uuid}"
    /\ response.status = 204
    /\ db.teaProductComponent # {}
    /\ db.teaReleaseComponent # {}
    /\ db.teaCollectionProducts # {}

\* The ReleaseComponent rows of a release.
ComponentsOfRelease(s, releaseUuid) ==
    {row \in s.teaReleaseComponent : row.releaseUuid = releaseUuid}

\* C11: a stored Release is tied to an existing Product and has exactly one
\* ReleaseComponent row, and a DELETE /component/{uuid} that answers 204
\* leaves every stored Release so.
C11_ReleaseKeepsItsComponent ==
    [][Answered({"DELETE /component/{uuid}"}, 204) =>
        \A releaseUuid \in DOMAIN db.teaRelease \cap DOMAIN db'.teaRelease :
            Cardinality(ComponentsOfRelease(db, releaseUuid)) = 1 =>
                /\ db'.teaRelease[releaseUuid].productUuid \in DOMAIN db'.teaProduct
                /\ Cardinality(ComponentsOfRelease(db', releaseUuid)) = 1]_vars

\* C12: POST /release for an existing Component without a ProductComponent
\* row answers 404 'Component not associated with any product' and writes
\* nothing; a POST /release that creates a Release gives it the productUuid
\* of a ProductComponent row of its Component.
C12_ReleaseProductFromComponent ==
    [][/\ \A session \in Callers, body \in ReleaseBodies, fault \in StoreFaults :
            /\ PostRelease(session, body, fault)
            /\ body.componentIdentifier \in DOMAIN db.teaComponent
            /\ ~AccessDenied(db.teaComponent[body.componentIdentifier], session)
            /\ \A row \in db.teaProductComponent :
                    row.componentUuid # body.componentIdentifier
            => /\ response'.op = "POST /release"
               /\ response'.status = 404
               /\ response'.error = "Component not associated with any product"
               /\ db' = db
      /\ inflight.op = "none" /\ inflight'.op = "POST /release"
            => /\ inflight'.uuid \notin DOMAIN db.teaRelease
               /\ inflight'.uuid \in DOMAIN db'.teaRelease
               /\ \E row \in db.teaProductComponent :
                    /\ row.componentUuid = inflight'.link
                    /\ row.productUuid = db'.teaRelease[inflight'.uuid].productUuid]_vars

\* A Release has been created, and a POST /release for a Component without a
\* product has been refused since.
C12_Witness ==
    /\ response.op = "POST /release"
    /\ response.status = 404
    /\ response.error = "Component not associated with any product"
    /\ DOMAIN db.teaRelease # {}
    /\ \E componentUuid \in DOMAIN db.teaComponent :
            \A row \in db.teaProductComponent : row.componentUuid # componentUuid

(* ---------------------- the association tables ------------------------ *)

\* The store calls on the association tables, applied to any pair of existing
\* rows: the handlers only ever pass them a uuid they have just generated.
MaxRowId == 3

StoreProducts == {ProductPool[1], ProductPool[2]}

StoreComponents == {ComponentPool[1], ComponentPool[2]}

StoreReleases == {ReleasePool[1], ReleasePool[2]}

StoreCollections == {CollectionPool[1]}

\* A store in which the entities above exist and one pair of each table is
\* linked.
LinkedStore ==
    [teaProduct |-> [u \in StoreProducts |->
                        [name |-> "libfoo", type |-> "library", version |-> Null,
                         identifiers |-> JSONstringify(<< >>), orgId |-> NoOrg,
                         createdAt |-> Now, updatedAt |-> Now]],
     teaComponent |-> [u \in StoreComponents |->
                        [name |-> "core", type |-> "library", version |-> Null,
                         identifiers |-> JSONstringify(<< >>), orgId |-> NoOrg,
                         createdAt |-> Now, updatedAt |-> Now]],
     teaRelease |-> [u \in StoreReleases |->
                        [productUuid |-> ProductPool[1], tag |-> ReleaseTag("1.0.0"),
                         version |-> "1.0.0", name |-> Null, prerelease |-> FALSE,
                         draft |-> FALSE, orgId |-> NoOrg,
                         createdAt |-> Now, updatedAt |-> Now]],
     teaCollection |-> [u \in StoreCollections |->
                        [name |-> <<"Collection for ", "libfoo", " v", "1.0.0">>,
                         description |-> CollectionDescription(ReleasePool[1],
                                                               [type |-> "INITIAL_RELEASE"]),
                         artifacts |-> JSONstringify(<< >>),
                         lifecycle |-> JSONstringifyObject(
                                            createInitialLifecycle(ReleasePool[1])),
                         orgId |-> NoOrg,
                         updatedAt |-> Now]],
     teaProductComponent |->
        {[id |-> 1, productUuid |-> ProductPool[1], componentUuid |-> ComponentPool[1]]},
     teaReleaseComponent |->
        {[id |-> 1, releaseUuid |-> ReleasePool[1], componentUuid |-> ComponentPool[1]]},
     teaCollectionProducts |-> {<<CollectionPool[1], ProductPool[1]>>}]

\* What a store call gave: it resolved, or it threw.
StoreOutcome(call, threw) ==
    [op |-> call, status |-> 0,
     error |-> IF threw THEN "PrismaClientKnownRequestError" ELSE Absent,
     data |-> EmptyObject]

StoreInit ==
    /\ deployment = "functions"
    /\ db = LinkedStore
    /\ generated = [product |-> 2, component |-> 2, release |-> 2, collection |-> 1]
    /\ inflight = NoRequest
    /\ response = NoResponse

\* prisma.teaProductComponent.create({ data: row })
StoreProductComponentCreate(row) ==
    /\ NextId(db.teaProductComponent) <= MaxRowId
    /\ IF ProductComponentCreateOk(db, row)
       THEN /\ db' = ProductComponentCreate(db, row)
            /\ response' = StoreOutcome("teaProductComponent.create", FALSE)
       ELSE /\ response' = StoreOutcome("teaProductComponent.create", TRUE)
            /\ UNCHANGED db
    /\ UNCHANGED <<deployment, generated, inflight>>

\* prisma.teaReleaseComponent.create({ data: row })
StoreReleaseComponentCreate(row) ==
    /\ NextId(db.teaReleaseComponent) <= MaxRowId
    /\ IF ReleaseComponentCreateOk(db, row)
       THEN /\ db' = ReleaseComponentCreate(db, row)
            /\ response' = StoreOutcome("teaReleaseComponent.create", FALSE)
       ELSE /\ response' = StoreOutcome("teaReleaseComponent.create", TRUE)
            /\ UNCHANGED db
    /\ UNCHANGED <<deployment, generated, inflight>>

\* prisma.teaCollection.update({ data: { products: { connect: { uuid } } } })
StoreCollectionConnect(collectionUuid, productUuid) ==
    /\ IF CollectionConnectOk(db, collectionUuid, productUuid)
       THEN /\ db' = CollectionConnect(db, collectionUuid, productUuid)
            /\ response' = StoreOutcome("teaCollection.update", FALSE)
       ELSE /\ response' = StoreOutcome("teaCollection.update", TRUE)
            /\ UNCHANGED db
    /\ UNCHANGED <<deployment, generated, inflight>>

\* deleteMany({ where: { productUuid } }) and deleteMany({ where: { releaseUuid } })
StoreDeleteMany(productUuids, releaseUuids) ==
    /\ db' = ReleaseComponentDeleteMany(ProductComponentDeleteMany(db, productUuids, {}),
                                        releaseUuids, {})
    /\ response' = StoreOutcome("deleteMany", FALSE)
    /\ UNCHANGED <<deployment, generated, inflight>>

StoreNext ==
    \/ \E productUuid \in StoreProducts, componentUuid \in StoreComponents :
            StoreProductComponentCreate([productUuid |-> productUuid,
                                         componentUuid |-> componentUuid])
    \/ \E releaseUuid \in StoreReleases, componentUuid \in StoreComponents :
            StoreReleaseComponentCreate([releaseUuid |-> releaseUuid,
                                         componentUuid |-> componentUuid])
    \/ \E collectionUuid \in StoreCollections, productUuid \in StoreProducts :
            StoreCollectionConnect(collectionUuid, productUuid)
    \/ \E productUuid \in StoreProducts : StoreDeleteMany({productUuid}, {})
    \/ \E releaseUuid \in StoreReleases : StoreDeleteMany({}, {releaseUuid})

StoreSpec == StoreInit /\ [][StoreNext]_vars

\* No two rows of an association table hold the same pair.
PairsUnique(s) ==
    /\ \A a, b \in s.teaProductComponent :
            (a.productUuid = b.productUuid /\ a.componentUuid = b.componentUuid) => a = b
    /\ \A a, b \in s.teaReleaseComponent :
            (a.releaseUuid = b.releaseUuid /\ a.componentUuid = b.componentUuid) => a = b

ProductComponentPairs(s) ==
    {<<row.productUuid, row.componentUuid>> : row \in s.teaProductComponent}

ReleaseComponentPairs(s) ==
    {<<row.releaseUuid, row.componentUuid>> : row \in s.teaReleaseComponent}

\* An insert of a pair the table already holds throws and writes nothing.
DuplicateRowRejected ==
    /\ \A productUuid \in StoreProducts, componentUuid \in StoreComponents :
            (/\ <<productUuid, componentUuid>> \in ProductComponentPairs(db)
             /\ StoreProductComponentCreate([productUuid |-> productUuid,
                                             componentUuid |-> componentUuid]))
            => (response'.error # Absent /\ db' = db)
    /\ \A releaseUuid \in StoreReleases, componentUuid \in StoreComponents :
            (/\ <<releaseUuid, componentUuid>> \in ReleaseComponentPairs(db)
             /\ StoreReleaseComponentCreate([releaseUuid |-> releaseUuid,
                                             componentUuid |-> componentUuid]))
            => (response'.error # Absent /\ db' = db)

C14_CollectionDeleteFrame ==
    [][Answered({"DELETE /collection/{uuid}"}, 204) =>
        \E collectionUuid \in DOMAIN db.teaCollection :
            /\ DOMAIN db'.teaCollection = DOMAIN db.teaCollection \ {collectionUuid}
            /\ \A other \in DOMAIN db'.teaCollection :
                    db'.teaCollection[other] = db.teaCollection[other]
            /\ db'.teaCollectionProducts =
                    {link \in db.teaCollectionProducts : link[1] # collectionUuid}
            /\ db'.teaProduct = db.teaProduct
            /\ db'.teaComponent = db.teaComponent
            /\ db'.teaRelease = db.teaRelease
            /\ db'.teaProductComponent = db.teaProductComponent
            /\ db'.teaReleaseComponent = db.teaReleaseComponent
            /\ \A productUuid \in DOMAIN db'.teaProduct :
                    <<collectionUuid, productUuid>> \notin db'.teaCollectionProducts
            /\ \A releaseUuid \in DOMAIN db'.teaRelease :
                    collectionUuid \notin CollectionReferences(db', releaseUuid)]_vars

\* DELETE /collection/{uuid} has answered 204 for the one collection, which was
\* linked to a product; the product, its component, its release and their
\* association rows are stored.
C14_Witness ==
    /\ response.op = "DELETE /collection/{uuid}"
    /\ response.status = 204
    /\ generated.collection = 1
    /\ DOMAIN db.teaCollection = {}
    /\ db.teaCollectionProducts = {}
    /\ DOMAIN db.teaRelease # {}
    /\ db.teaProductComponent # {}
    /\ db.teaReleaseComponent # {}

(* ------------------- the routes of one row, by tenant ----------------- *)

\* The organisations of the sessions.
Tenants == {"org1", "org2"}

\* The orgId of the rows the i-th session has created.
TenantOrgId(i) ==
    IF deployment = "session" THEN (IF i = 1 THEN "org1" ELSE "org2") ELSE NoOrg

\* The store after each of two organisations has created a product, a
\* component of it and a release of the component, and the first of them a
\* collection for its release.
TenantStore ==
    [teaProduct |->
        [u \in StoreProducts |->
            [name |-> "libfoo", type |-> "library", version |-> Null,
             identifiers |-> JSONstringify(<< >>),
             orgId |-> TenantOrgId(IF u = ProductPool[1] THEN 1 ELSE 2),
             createdAt |-> Now, updatedAt |-> Now]],
     teaComponent |->
        [u \in StoreComponents |->
            [name |-> "core", type |-> "library", version |-> Null,
             identifiers |-> JSONstringify(<< >>),
             orgId |-> TenantOrgId(IF u = ComponentPool[1] THEN 1 ELSE 2),
             createdAt |-> Now, updatedAt |-> Now]],
     teaRelease |->
        [u \in StoreReleases |->
            [productUuid |-> IF u = ReleasePool[1] THEN ProductPool[1] ELSE ProductPool[2],
             tag |-> ReleaseTag("1.0.0"), version |-> "1.0.0", name |-> Null,
             prerelease |-> FALSE, draft |-> FALSE,
             orgId |-> TenantOrgId(IF u = ReleasePool[1] THEN 1 ELSE 2),
             createdAt |-> Now, updatedAt |-> Now]],
     teaCollection |->
        [u \in StoreCollections |->
            [name |-> <<"Collection for ", "libfoo", " v", "1.0.0">>,
             description |-> CollectionDescription(ReleasePool[1],
                                                   [type |-> "INITIAL_RELEASE"]),
             artifacts |-> JSONstringify(<<"A">>),
             lifecycle |-> IF deployment = "session"
                           THEN JSONstringifyObject(InitialLifecycleSession)
                           ELSE JSONstringifyObject(createInitialLifecycle(ReleasePool[1])),
             orgId |-> TenantOrgId(1),
             updatedAt |-> Now]],
     teaProductComponent |->
        {[id |-> 1, productUuid |-> ProductPool[1], componentUuid |-> ComponentPool[1]],
         [id |-> 2, productUuid |-> ProductPool[2], componentUuid |-> ComponentPool[2]]},
     teaReleaseComponent |->
        {[id |-> 1, releaseUuid |-> ReleasePool[1], componentUuid |-> ComponentPool[1]],
         [id |-> 2, releaseUuid |-> ReleasePool[2], componentUuid |-> ComponentPool[2]]},
     teaCollectionProducts |-> {<<CollectionPool[1], ProductPool[1]>>}]

TenantInit ==
    /\ deployment \in Deployments
    /\ db = TenantStore
    /\ generated = [product |-> 2, component |-> 2, release |-> 2, collection |-> 1]
    /\ inflight = NoRequest
    /\ response = NoResponse

\* params.uuid: the uuid of a stored row or a uuid of no row.
ProductParams == StoreProducts \cup {"b1"}

ComponentParams == StoreComponents \cup {"b1"}

ReleaseParams == StoreReleases \cup {"b1"}

CollectionParams == StoreCollections \cup {"b1"}

TenantNext ==
    \/ \E session \in Tenants, uuid \in ProductParams : GetProduct(session, uuid)
    \/ \E session \in Tenants, uuid \in ProductParams :
            PatchProduct(session, uuid, [name |-> "renamed"], FALSE)
    \/ \E session \in Tenants, uuid \in ProductParams : DeleteProduct(session, uuid, 0, {})
    \/ \E session \in Tenants, uuid \in ComponentParams : GetComponent(session, uuid)
    \/ \E session \in Tenants, uuid \in ComponentParams :
            PatchComponent(session, uuid, [name |-> "renamed"], FALSE)
    \/ \E session \in Tenants, uuid \in ComponentParams : DeleteComponent(session, uuid, 0)
    \/ \E session \in Tenants, uuid \in ReleaseParams : GetRelease(session, uuid)
    \/ \E session \in Tenants, uuid \in ReleaseParams :
            PatchRelease(session, uuid, [version |-> "2.0.0"], FALSE)
    \/ \E session \in Tenants, uuid \in ReleaseParams : DeleteRelease(session, uuid, 0)
    \/ \E session \in Tenants, uuid \in CollectionParams : GetCollection(session, uuid)
    \/ \E uuid \in CollectionParams :
            PatchCollection(uuid, [name |-> <<"renamed">>], FALSE)
    \/ \E session \in Tenants, uuid \in CollectionParams :
            PatchCollectionSession(session, uuid, [name |-> <<"renamed">>], FALSE)
    \/ \E session \in Tenants, uuid \in CollectionParams :
            DeleteCollection(session, uuid, FALSE)

TenantSpec == TenantInit /\ [][TenantNext]_vars

\* The answer to a request for a row of another organisation.
Denied ==
    /\ response'.status = 403
    /\ response'.error = "Access denied"
    /\ db' = db

\* C15: a GET, PATCH or DELETE of /product/{uuid}, /component/{uuid},
\* /release/{uuid} or /collection/{uuid} by a session whose organisation is not
\* the orgId of the stored row is answered 403 'Access denied' and leaves the
\* store as it was.
C15_CrossTenantDenied ==
    [][\A session \in Tenants :
        /\ \A uuid \in DOMAIN db.teaProduct :
            (/\ db.teaProduct[uuid].orgId # session
             /\ \/ GetProduct(session, uuid)
                \/ PatchProduct(session, uuid, [name |-> "renamed"], FALSE)
                \/ DeleteProduct(session, uuid, 0, {})) => Denied
        /\ \A uuid \in DOMAIN db.teaComponent :
            (/\ db.teaComponent[uuid].orgId # session
             /\ \/ GetComponent(session, uuid)
                \/ PatchComponent(session, uuid, [name |-> "renamed"], FALSE)
                \/ DeleteComponent(session, uuid, 0)) => Denied
        /\ \A uuid \in DOMAIN db.teaRelease :
            (/\ db.teaRelease[uuid].orgId # session
             /\ \/ GetRelease(session, uuid)
                \/ PatchRelease(session, uuid, [version |-> "2.0.0"], FALSE)
                \/ DeleteRelease(session, uuid, 0)) => Denied
        /\ \A uuid \in DOMAIN db.teaCollection :
            (/\ db.teaCollection[uuid].orgId # session
             /\ \/ GetCollection(session, uuid)
                \/ PatchCollection(uuid, [name |-> <<"renamed">>], FALSE)
                \/ PatchCollectionSession(session, uuid, [name |-> <<"renamed">>], FALSE)
                \/ DeleteCollection(session, uuid, FALSE)) => Denied]_vars

(* ------------------------------ the lists ----------------------------- *)

\* where: { orgId: data.session.orgId } in the session copy, {} in the
\* functions copy: the uuids of the rows a list request finds.
Listed(table, session) ==
    {uuid \in DOMAIN table : deployment = "session" => table[uuid].orgId = session}

\* identifiers: { contains: JSON.stringify({ idType, idValue }) }, asked for
\* when the query carries both: the stored text contains the text of the pair
\* when the pair is one of the identifiers of the row.
IdentifierMatches(row, query) ==
    (~Falsy(query, "idType") /\ ~Falsy(query, "idValue")) =>
        LET identifiers == JSONparse(row.identifiers, << >>) IN
        \E i \in DOMAIN identifiers :
            identifiers[i] = [idType |-> query.idType, idValue |-> query.idValue]

\* pagination of the answer: pageOffset and pageSize as the handler reads them
\* from the query, and the two flags.
Pagination(query, total) ==
    LET pageOffset == IF Has(query, "pageOffset") THEN query.pageOffset ELSE 0
        requested == IF Has(query, "pageSize") THEN query.pageSize ELSE 100
        pageSize == IF requested < 1000 THEN requested ELSE 1000
    IN  [total |-> total,
         pageOffset |-> pageOffset,
         pageSize |-> pageSize,
         hasNext |-> pageOffset + pageSize < total,
         hasPrevious |-> pageOffset > 0]

\* findMany({ where, skip, take, orderBy: { createdAt: 'desc' } }): of the
\* rows found, those with at least `skip` and fewer than `skip + take` newer
\* rows found; the rows of a table are created in the order of its pool.
FindMany(found, pool, skip, take) ==
    {pool[i] : i \in {j \in DOMAIN pool :
                        /\ pool[j] \in found
                        /\ LET newer == Cardinality({k \in DOMAIN pool :
                                                        k > j /\ pool[k] \in found})
                           IN  newer >= skip /\ newer < skip + take}}

\* { data, pagination }: total counts the rows found, data holds the items
\* of the page, kept as a set.
ListResponse(found, pool, query, Item(_)) ==
    LET pagination == Pagination(query, Cardinality(found)) IN
    [data |-> {Item(uuid) :
                uuid \in FindMany(found, pool, pagination.pageOffset, pagination.pageSize)},
     pagination |-> pagination]

ProductList(s, session, query) ==
    LET Item(uuid) == ProductResponse(s, uuid) IN
    ListResponse({uuid \in Listed(s.teaProduct, session) :
                    IdentifierMatches(s.teaProduct[uuid], query)},
                 ProductPool, query, Item)

ComponentList(s, session, query) ==
    LET Item(uuid) ==
            [uuid |-> uuid,
             name |-> s.teaComponent[uuid].name,
             identifiers |-> JSONparse(s.teaComponent[uuid].identifiers, << >>),
             versions |-> IF s.teaComponent[uuid].version \in {Null, ""}
                          THEN << >> ELSE <<s.teaComponent[uuid].version>>,
             releases |-> {row.releaseUuid :
                            row \in {r \in s.teaReleaseComponent : r.componentUuid = uuid}}]
    IN  ListResponse({uuid \in Listed(s.teaComponent, session) :
                        IdentifierMatches(s.teaComponent[uuid], query)},
                     ComponentPool, query, Item)

\* identifiers: those of the components of the release, as a set of lists.
\* With idType and idValue the handler looks for the components that match:
\* when there are none it answers at once, with both flags false; else it
\* finds the releases with one of them.
ReleaseList(s, session, query) ==
    LET Item(uuid) ==
            [uuid |-> uuid,
             version |-> s.teaRelease[uuid].version,
             identifiers |->
                {JSONparse(s.teaComponent[row.componentUuid].identifiers, << >>) :
                    row \in ComponentsOfRelease(s, uuid)},
             collectionReferences |-> CollectionReferences(s, uuid)]
        filtered == ~Falsy(query, "idType") /\ ~Falsy(query, "idValue")
        componentUuids == {uuid \in Listed(s.teaComponent, session) :
                            IdentifierMatches(s.teaComponent[uuid], query)}
    IN  IF filtered /\ componentUuids = {}
        THEN [data |-> {},
              pagination |-> [Pagination(query, 0) EXCEPT !.hasNext = FALSE,
                                                          !.hasPrevious = FALSE]]
        ELSE ListResponse({uuid \in Listed(s.teaRelease, session) :
                            filtered =>
                                \E row \in ComponentsOfRelease(s, uuid) :
                                    row.componentUuid \in componentUuids},
                          ReleasePool, query, Item)

CollectionList(s, session, query) ==
    LET Item(uuid) ==
            [uuid |-> uuid,
             version |-> 1,
             updateReason |-> [type |-> "INITIAL_RELEASE",
                               comment |-> s.teaCollection[uuid].description],
             artifacts |-> JSONparse(s.teaCollection[uuid].artifacts, << >>)]
    IN  ListResponse(Listed(s.teaCollection, session), CollectionPool, query, Item)

\* GET /product
GetProducts(session, query) ==
    /\ UNCHANGED deployment
    /\ IF Unauthenticated(session)
       THEN Reject(ErrorResponse("GET /product", 401, "Authentication required"))
       ELSE Reject(Response("GET /product", 200, ProductList(db, session, query)))

\* GET /component
GetComponents(session, query) ==
    /\ UNCHANGED deployment
    /\ IF Unauthenticated(session)
       THEN Reject(ErrorResponse("GET /component", 401, "Authentication required"))
       ELSE Reject(Response("GET /component", 200, ComponentList(db, session, query)))

\* GET /release
GetReleases(session, query) ==
    /\ UNCHANGED deployment
    /\ IF Unauthenticated(session)
       THEN Reject(ErrorResponse("GET /release", 401, "Authentication required"))
       ELSE Reject(Response("GET /release", 200, ReleaseList(db, session, query)))

\* GET /collection
GetCollections(session, query) ==
    /\ UNCHANGED deployment
    /\ IF Unauthenticated(session)
       THEN Reject(ErrorResponse("GET /collection", 401, "Authentication required"))
       ELSE Reject(Response("GET /collection", 200, CollectionList(db, session, query)))

\* The requests of two organisations that create rows, each row linked to a
\* row that exists, and their list requests without a query; no store call
\* fails.
ListNext ==
    \/ \E session \in Tenants, body \in ProductBodies : PostProduct(session, body)
    \/ \E session \in Tenants, body \in ComponentBodies : PostComponent(session, body, FALSE)
    \/ PostComponentLink(FALSE)
    \/ \E session \in Tenants, body \in ReleaseBodies : PostRelease(session, body, FALSE)
    \/ PostReleaseLink(FALSE)
    \/ \E session \in Tenants, body \in CollectionBodies : PostCollection(session, body, FALSE)
    \/ PostCollectionLink(FALSE)
    \/ \E session \in Tenants : GetProducts(session, EmptyObject)
    \/ \E session \in Tenants : GetComponents(session, EmptyObject)
    \/ \E session \in Tenants : GetReleases(session, EmptyObject)
    \/ \E session \in Tenants : GetCollections(session, EmptyObject)

ListSpec == Init /\ [][ListNext]_vars

\* The row is stored and its orgId is that of the session.
OwnedBy(table, uuid, session) == uuid \in DOMAIN table /\ table[uuid].orgId = session

\* C16: the answer to a list request of a session names and counts only rows
\* of the organisation of the session: the items, the components of a
\* product, the releases of a component and the collectionReferences of a
\* release are rows whose orgId is the session's, and pagination.total is the
\* number of the organisation's rows.
C16_ListsScopedToOrganisation ==
    [][\A session \in Tenants :
        /\ (GetProducts(session, EmptyObject) /\ response'.status = 200) =>
            /\ response'.data.pagination.total =
                    Cardinality({uuid \in DOMAIN db.teaProduct :
                                    db.teaProduct[uuid].orgId = session})
            /\ \A item \in response'.data.data :
                /\ OwnedBy(db.teaProduct, item.identifier, session)
                /\ \A uuid \in item.components : OwnedBy(db.teaComponent, uuid, session)
        /\ (GetComponents(session, EmptyObject) /\ response'.status = 200) =>
            /\ response'.data.pagination.total =
                    Cardinality({uuid \in DOMAIN db.teaComponent :
                                    db.teaComponent[uuid].orgId = session})
            /\ \A item \in response'.data.data :
                /\ OwnedBy(db.teaComponent, item.uuid, session)
                /\ \A uuid \in item.releases : OwnedBy(db.teaRelease, uuid, session)
        /\ (GetReleases(session, EmptyObject) /\ response'.status = 200) =>
            /\ response'.data.pagination.total =
                    Cardinality({uuid \in DOMAIN db.teaRelease :
                                    db.teaRelease[uuid].orgId = session})
            /\ \A item \in response'.data.data :
                /\ OwnedBy(db.teaRelease, item.uuid, session)
                /\ \A uuid \in item.collectionReferences :
                        OwnedBy(db.teaCollection, uuid, session)
        /\ (GetCollections(session, EmptyObject) /\ response'.status = 200) =>
            /\ response'.data.pagination.total =
                    Cardinality({uuid \in DOMAIN db.teaCollection :
                                    db.teaCollection[uuid].orgId = session})
            /\ \A item \in response'.data.data :
                    OwnedBy(db.teaCollection, item.uuid, session)]_vars

(* ------------------------- the pages of a list ------------------------ *)

\* The query of a list request: pageOffset and pageSize as the numbers the
\* handler parses, each present or not, and idType with idValue: none, a pair
\* that rows carry, a pair that no row carries.
Queries ==
    {pageOffset @@ pageSize @@ filter :
        pageOffset \in Optional("pageOffset", {1, 2}),
        pageSize \in Optional("pageSize", {1, 1001}),
        filter \in {EmptyObject,
                    [idType |-> "PURL", idValue |-> "pkg:core"],
                    [idType |-> "PURL", idValue |-> "pkg:none"]}}

\* The requests of one caller that create rows, with and without
\* identifiers, and the list requests over every query; no store call fails.
PageNext ==
    \/ \E session \in Callers,
          identifiers \in Optional("identifiers",
                                   {<<[idType |-> "PURL", idValue |-> "pkg:core"]>>}) :
            PostProduct(session, [name |-> "libfoo", type |-> "library"] @@ identifiers)
    \/ \E session \in Callers,
          identifiers \in Optional("identifiers",
                                   {<<[idType |-> "PURL", idValue |-> "pkg:core"]>>}) :
            PostComponent(session,
                          [name |-> "core", type |-> "library",
                           productIdentifier |-> ProductPool[1]] @@ identifiers,
                          FALSE)
    \/ PostComponentLink(FALSE)
    \/ \E session \in Callers :
            PostRelease(session,
                        [componentIdentifier |-> ComponentPool[1], version |-> "1.0.0",
                         releaseDate |-> Now],
                        FALSE)
    \/ PostReleaseLink(FALSE)
    \/ \E session \in Callers :
            PostCollection(session,
                           [releaseIdentifier |-> ReleasePool[1],
                            updateReason |-> [type |-> "INITIAL_RELEASE"],
                            artifacts |-> <<"A">>],
                           FALSE)
    \/ PostCollectionLink(FALSE)
    \/ \E session \in Callers, query \in Queries : GetProducts(session, query)
    \/ \E session \in Callers, query \in Queries : GetComponents(session, query)
    \/ \E session \in Callers, query \in Queries : GetReleases(session, query)
    \/ \E session \in Callers, query \in Queries : GetCollections(session, query)

PageSpec == Init /\ [][PageNext]_vars

\* C21: a list request with pageOffset o (0 when absent) and pageSize s (100
\* when absent) over N rows matching its filter answers pageSize =
\* min(s, 1000), min(pageSize, max(0, N - o)) items, total = N, hasNext =
\* (o + pageSize < N) and hasPrevious = (o > 0); the rows matching the filter
\* of GET /release are the releases with a component that carries the pair.
C21_Pagination ==
    [][\A session \in Callers, query \in Queries :
        LET o == IF "pageOffset" \in DOMAIN query THEN query.pageOffset ELSE 0
            s == IF "pageSize" \in DOMAIN query THEN query.pageSize ELSE 100
            pageSize == IF s < 1000 THEN s ELSE 1000
            Paged(N) ==
                /\ response'.data.pagination.pageSize = pageSize
                /\ response'.data.pagination.pageOffset = o
                /\ response'.data.pagination.total = N
                /\ response'.data.pagination.hasNext = (o + pageSize < N)
                /\ response'.data.pagination.hasPrevious = (o > 0)
                /\ Cardinality(response'.data.data) =
                        (IF N - o <= 0 THEN 0 ELSE IF N - o < pageSize THEN N - o ELSE pageSize)
        IN  /\ (GetProducts(session, query) /\ response'.status = 200) =>
                Paged(Cardinality({uuid \in DOMAIN db.teaProduct :
                                    IdentifierMatches(db.teaProduct[uuid], query)}))
            /\ (GetComponents(session, query) /\ response'.status = 200) =>
                Paged(Cardinality({uuid \in DOMAIN db.teaComponent :
                                    IdentifierMatches(db.teaComponent[uuid], query)}))
            /\ (GetReleases(session, query) /\ response'.status = 200) =>
                Paged(Cardinality({uuid \in DOMAIN db.teaRelease :
                        "idType" \in DOMAIN query =>
                            \E row \in db.teaReleaseComponent :
                                /\ row.releaseUuid = uuid
                                /\ IdentifierMatches(db.teaComponent[row.componentUuid],
                                                     query)}))
            /\ (GetCollections(session, query) /\ response'.status = 200) =>
                Paged(Cardinality(DOMAIN db.teaCollection))]_vars

(* ----------------------- the path parameter uuid ---------------------- *)

\* params.uuid: the uuid of a stored row, a uuid of no row in lower and in
\* upper case, or a text that is no uuid.
PathParams(stored) == {stored} \cup UnknownUuids \cup MalformedUuids

\* The requests of one organisation for one row of each type, over every
\* path parameter.
ParamNext ==
    \/ \E uuid \in PathParams(ProductPool[1]) : GetProduct("org1", uuid)
    \/ \E uuid \in PathParams(ProductPool[1]) :
            PatchProduct("org1", uuid, [name |-> "renamed"], FALSE)
    \/ \E uuid \in PathParams(ProductPool[1]) : DeleteProduct("org1", uuid, 0, {})
    \/ \E uuid \in PathParams(ComponentPool[1]) : GetComponent("org1", uuid)
    \/ \E uuid \in PathParams(ComponentPool[1]) :
            PatchComponent("org1", uuid, [name |-> "renamed"], FALSE)
    \/ \E uuid \in PathParams(ComponentPool[1]) : DeleteComponent("org1", uuid, 0)
    \/ \E uuid \in PathParams(ReleasePool[1]) : GetRelease("org1", uuid)
    \/ \E uuid \in PathParams(ReleasePool[1]) :
            PatchRelease("org1", uuid, [version |-> "2.0.0"], FALSE)
    \/ \E uuid \in PathParams(ReleasePool[1]) : DeleteRelease("org1", uuid, 0)
    \/ \E uuid \in PathParams(CollectionPool[1]) : GetCollection("org1", uuid)
    \/ \E uuid \in PathParams(CollectionPool[1]) :
            PatchCollection(uuid, [name |-> <<"renamed">>], FALSE)
    \/ \E uuid \in PathParams(CollectionPool[1]) :
            PatchCollectionSession("org1", uuid, [name |-> <<"renamed">>], FALSE)
    \/ \E uuid \in PathParams(CollectionPool[1]) : DeleteCollection("org1", uuid, FALSE)

ParamSpec == TenantInit /\ [][ParamNext]_vars

\* The answer to a request whose path parameter is no uuid.
InvalidParameter(op, error) ==
    /\ response' = [op |-> op, status |-> 400, error |-> error, data |-> EmptyObject]
    /\ db' = db

\* C17: a GET, PATCH or DELETE of /product/{uuid}, /component/{uuid},
\* /release/{uuid} or /collection/{uuid} whose path parameter does not match
\* the 8-4-4-4-12 grouping of hexadecimal digits is answered 400 with the same
\* body whatever the store holds, and the store is as before.
C17_MalformedUuidRejected ==
    [][\A uuid \in MalformedUuids :
        /\ GetProduct("org1", uuid) => InvalidParameter("GET /product/{uuid}",
                                                        "Invalid product UUID")
        /\ PatchProduct("org1", uuid, [name |-> "renamed"], FALSE)
                => InvalidParameter("PATCH /product/{uuid}", "Invalid product UUID")
        /\ DeleteProduct("org1", uuid, 0, {})
                => InvalidParameter("DELETE /product/{uuid}", "Invalid product UUID")
        /\ GetComponent("org1", uuid)
                => InvalidParameter("GET /component/{uuid}", "Invalid component UUID")
        /\ PatchComponent("org1", uuid, [name |-> "renamed"], FALSE)
                => InvalidParameter("PATCH /component/{uuid}", "Invalid component UUID")
        /\ DeleteComponent("org1", uuid, 0)
                => InvalidParameter("DELETE /component/{uuid}", "Invalid component UUID")
        /\ GetRelease("org1", uuid)
                => InvalidParameter("GET /release/{uuid}", "Invalid release UUID")
        /\ PatchRelease("org1", uuid, [version |-> "2.0.0"], FALSE)
                => InvalidParameter("PATCH /release/{uuid}", "Invalid release UUID")
        /\ DeleteRelease("org1", uuid, 0)
                => InvalidParameter("DELETE /release/{uuid}", "Invalid release UUID")
        /\ GetCollection("org1", uuid)
                => InvalidParameter("GET /collection/{uuid}", "Invalid collection UUID")
        /\ PatchCollection(uuid, [name |-> <<"renamed">>], FALSE)
                => InvalidParameter("PATCH /collection/{uuid}", "Invalid collection UUID")
        /\ PatchCollectionSession("org1", uuid, [name |-> <<"renamed">>], FALSE)
                => InvalidParameter("PATCH /collection/{uuid}", "Invalid collection UUID")
        /\ DeleteCollection("org1", uuid, FALSE)
                => InvalidParameter("DELETE /collection/{uuid}", "Invalid collection UUID")]_vars

\* A DELETE /release/{uuid} has been answered 400 while the release, its
\* component and its product are stored.
C17_Witness ==
    /\ response.op = "DELETE /release/{uuid}"
    /\ response.status = 400
    /\ response.error = "Invalid release UUID"
    /\ ReleasePool[1] \in DOMAIN db.teaRelease
    /\ db.teaReleaseComponent # {}

(* ------------------------ the bodies of a POST ------------------------ *)

\* CreateTeaProductRequest, CreateTeaComponentRequest, CreateTeaReleaseRequest
\* and CreateTeaCollectionRequest with each required field present, empty or
\* missing, and each identifier the uuid of a row, a uuid of no row or a text
\* that is no uuid.
ProductCreateBodies ==
    {name @@ type :
        name \in Optional("name", {"libfoo", ""}),
        type \in Optional("type", {"library", ""})}

ComponentCreateBodies ==
    {name @@ type @@ productIdentifier :
        name \in Optional("name", {"core"}),
        type \in Optional("type", {"library"}),
        productIdentifier \in Optional("productIdentifier",
                                       {ProductPool[1], "b1", "g1", "1234", ""})}

ReleaseCreateBodies ==
    {componentIdentifier @@ version @@ releaseDate :
        componentIdentifier \in Optional("componentIdentifier",
                                         {ComponentPool[1], "b1", "g1", "a1x", ""}),
        version \in Optional("version", {"1.0.0", ""}),
        releaseDate \in Optional("releaseDate", {Now})}
    \cup {[componentIdentifier |-> ComponentPool[1], version |-> version,
           releaseDate |-> Now] @@ preRelease :
            version \in {"1.0.0", "2.0.0"},
            preRelease \in Optional("preRelease", BOOLEAN)}

CollectionCreateBodies ==
    {releaseIdentifier @@ updateReason :
        releaseIdentifier \in Optional("releaseIdentifier",
                                       {ReleasePool[1], "b1", "g1", "1234"}),
        updateReason \in Optional("updateReason",
                                  {EmptyObject, [type |-> ""],
                                   [type |-> "INITIAL_RELEASE"]})}

\* The POST requests of one organisation over these bodies; no store call
\* fails but for the constraints of the store.
CreateNext ==
    \/ \E session \in Callers, body \in ProductCreateBodies : PostProduct(session, body)
    \/ \E session \in Callers, body \in ComponentCreateBodies :
            PostComponent(session, body, FALSE)
    \/ PostComponentLink(FALSE)
    \/ \E session \in Callers, body \in ReleaseCreateBodies :
            PostRelease(session, body, FALSE)
    \/ PostReleaseLink(FALSE)
    \/ \E session \in Callers, body \in CollectionCreateBodies :
            PostCollection(session, body, FALSE)
    \/ PostCollectionLink(FALSE)

CreateSpec == Init /\ [][CreateNext]_vars

\* The body carries every key of `keys` with a value that is not empty.
Carries(body, keys) == \A key \in keys : key \in DOMAIN body /\ body[key] # ""

\* C18: a POST /release whose componentIdentifier, a POST /collection whose
\* releaseIdentifier and a POST /component whose productIdentifier is a text
\* that is no uuid is answered 400 and writes nothing.
C18_MalformedIdentifierRejected ==
    [][\A session \in Callers, identifier \in {"g1", "1234", "a1x"} :
        /\ \A body \in ReleaseCreateBodies :
            (/\ Carries(body, {"componentIdentifier", "version", "releaseDate"})
             /\ body.componentIdentifier = identifier
             /\ PostRelease(session, body, FALSE))
            => (/\ response'.status = 400
                /\ response'.error = "Invalid component UUID format"
                /\ db' = db)
        /\ \A body \in CollectionCreateBodies :
            (/\ Carries(body, {"releaseIdentifier"})
             /\ "updateReason" \in DOMAIN body
             /\ Carries(body.updateReason, {"type"})
             /\ body.releaseIdentifier = identifier
             /\ PostCollection(session, body, FALSE))
            => (/\ response'.status = 400
                /\ response'.error = "Invalid release UUID format"
                /\ db' = db)
        /\ \A body \in ComponentCreateBodies :
            (/\ Carries(body, {"name", "type", "productIdentifier"})
             /\ body.productIdentifier = identifier
             /\ PostComponent(session, body, FALSE))
            => (/\ response'.status = 400
                /\ db' = db)]_vars

\* C19: a POST /product without name or type, a POST /component without name,
\* type or productIdentifier, a POST /release without componentIdentifier,
\* version or releaseDate and a POST /collection without releaseIdentifier or
\* updateReason.type is answered 400 and leaves every table as it was.
C19_MissingFieldRejected ==
    [][\A session \in Callers :
        /\ \A body \in ProductCreateBodies :
            (~Carries(body, {"name", "type"}) /\ PostProduct(session, body))
            => (response'.status = 400 /\ db' = db /\ inflight' = inflight)
        /\ \A body \in ComponentCreateBodies :
            (/\ ~Carries(body, {"name", "type", "productIdentifier"})
             /\ PostComponent(session, body, FALSE))
            => (response'.status = 400 /\ db' = db /\ inflight' = inflight)
        /\ \A body \in ReleaseCreateBodies :
            (/\ ~Carries(body, {"componentIdentifier", "version", "releaseDate"})
             /\ PostRelease(session, body, FALSE))
            => (response'.status = 400 /\ db' = db /\ inflight' = inflight)
        /\ \A body \in CollectionCreateBodies :
            (/\ \/ ~Carries(body, {"releaseIdentifier"})
                \/ "updateReason" \notin DOMAIN body
                \/ ~Carries(body.updateReason, {"type"})
             /\ PostCollection(session, body, FALSE))
            => (response'.status = 400 /\ db' = db /\ inflight' = inflight)]_vars

\* POST /collection has been answered 400 for a missing updateReason.type
\* while a release with its product and component is stored and no collection
\* is.
C19_Witness ==
    /\ response.op = "POST /collection"
    /\ response.status = 400
    /\ response.error = "Missing required field: updateReason.type"
    /\ ReleasePool[1] \in DOMAIN db.teaRelease
    /\ db.teaReleaseComponent # {}
    /\ DOMAIN db.teaCollection = {}
    /\ generated.collection = 0

(* ------------------- PATCH of a product, component, release ----------- *)

\* UpdateTeaProductRequest, UpdateTeaComponentRequest, UpdateTeaReleaseRequest:
\* every field is optional; a text may be empty and a list may be empty.
ProductPatchBodies ==
    {name @@ identifiers :
        name \in Optional("name", {"renamed", ""}),
        identifiers \in Optional("identifiers", {<< >>, <<"cpe">>})}

ComponentPatchBodies ==
    {name @@ version @@ identifiers :
        name \in Optional("name", {"renamed", ""}),
        version \in Optional("version", {"2.0.0", ""}),
        identifiers \in Optional("identifiers", {<< >>, <<"cpe">>})}

ReleasePatchBodies ==
    {version @@ name :
        version \in Optional("version", {"2.0.0", ""}),
        name \in Optional("name", {"renamed", ""})}

\* The PATCH requests of one organisation for its product, its component and
\* its release, from the store of TenantInit.
PatchNext ==
    \/ \E requestBody \in ProductPatchBodies :
            PatchProduct("org1", ProductPool[1], requestBody, FALSE)
    \/ \E requestBody \in ComponentPatchBodies :
            PatchComponent("org1", ComponentPool[1], requestBody, FALSE)
    \/ \E requestBody \in ReleasePatchBodies :
            PatchRelease("org1", ReleasePool[1], requestBody, FALSE)
    \/ GetProduct("org1", ProductPool[1])
    \/ GetComponent("org1", ComponentPool[1])
    \/ GetRelease("org1", ReleasePool[1])

PatchSpec == TenantInit /\ [][PatchNext]_vars

\* After the step the row has, in each of `texts`, the value of the body when
\* the body carries the key and the value it had when not; the same for the
\* list of `lists`, held as its JSON text; and createdAt, orgId and every
\* other row of the table are as before.
Patched(before, after, uuid, requestBody, texts, lists) ==
    /\ DOMAIN after = DOMAIN before
    /\ \A other \in DOMAIN before \ {uuid} : after[other] = before[other]
    /\ \A key \in texts :
            after[uuid][key] = IF key \in DOMAIN requestBody
                               THEN requestBody[key] ELSE before[uuid][key]
    /\ \A key \in lists :
            JSONparse(after[uuid][key], << >>) =
                IF key \in DOMAIN requestBody
                THEN requestBody[key] ELSE JSONparse(before[uuid][key], << >>)
    /\ after[uuid].createdAt = before[uuid].createdAt
    /\ after[uuid].orgId = before[uuid].orgId

\* C20: after a PATCH of a product, a component or a release that is answered
\* 200, each patchable field holds the value of the body when the body
\* carries it, the empty text and the empty list too, and its previous value
\* when not; uuid, createdAt, the productUuid of a release, every association
\* row and every other row are as before.
C20_PatchWritesPresentFields ==
    [][/\ \A requestBody \in ProductPatchBodies :
            (/\ PatchProduct("org1", ProductPool[1], requestBody, FALSE)
             /\ response'.status = 200)
            => /\ Patched(db.teaProduct, db'.teaProduct, ProductPool[1], requestBody,
                          {"name"}, {"identifiers"})
               /\ db' = [db EXCEPT !.teaProduct = db'.teaProduct]
       /\ \A requestBody \in ComponentPatchBodies :
            (/\ PatchComponent("org1", ComponentPool[1], requestBody, FALSE)
             /\ response'.status = 200)
            => /\ Patched(db.teaComponent, db'.teaComponent, ComponentPool[1],
                          requestBody, {"name", "version"}, {"identifiers"})
               /\ db' = [db EXCEPT !.teaComponent = db'.teaComponent]
       /\ \A requestBody \in ReleasePatchBodies :
            (/\ PatchRelease("org1", ReleasePool[1], requestBody, FALSE)
             /\ response'.status = 200)
            => /\ Patched(db.teaRelease, db'.teaRelease, ReleasePool[1], requestBody,
                          {"version", "name"}, {})
               /\ db'.teaRelease[ReleasePool[1]].productUuid =
                    db.teaRelease[ReleasePool[1]].productUuid
               /\ db' = [db EXCEPT !.teaRelease = db'.teaRelease]]_vars

(* --------------------- what a product and a release report ------------ *)

\* The requests of one caller that create and delete rows, and the requests
\* that read a product, a release and the releases; no store call fails.
ReadNext ==
    \/ \E session \in Callers, body \in ProductBodies : PostProduct(session, body)
    \/ \E session \in Callers, body \in ComponentBodies : PostComponent(session, body, FALSE)
    \/ PostComponentLink(FALSE)
    \/ \E session \in Callers, body \in ReleaseBodies : PostRelease(session, body, FALSE)
    \/ PostReleaseLink(FALSE)
    \/ \E session \in Callers, body \in CollectionBodies : PostCollection(session, body, FALSE)
    \/ PostCollectionLink(FALSE)
    \/ \E session \in Callers, productUuid \in ProductUuids :
            DeleteProduct(session, productUuid, 0, {})
    \/ \E session \in Callers, componentUuid \in ComponentUuids :
            DeleteComponent(session, componentUuid, 0)
    \/ \E session \in Callers, collectionUuid \in CollectionUuids :
            DeleteCollection(session, collectionUuid, FALSE)
    \/ \E session \in Callers, productUuid \in ProductUuids : GetProduct(session, productUuid)
    \/ \E session \in Callers, releaseUuid \in ReleaseUuids : GetRelease(session, releaseUuid)
    \/ \E session \in Callers : GetReleases(session, EmptyObject)

ReadSpec == Init /\ [][ReadNext]_vars

\* C22: GET /product/{p} reports in components exactly the components with a
\* ProductComponent row with p; the answer to POST /product reports none and
\* the new product has no row; a POST /component with productIdentifier p that
\* answers 201 has written the row of its component with p; a row stays as
\* long as its component and its product are stored, and no row names a
\* component that is deleted.
C22_ProductReportsItsComponents ==
    [][/\ \A productUuid \in ProductUuids :
            (GetProduct("org1", productUuid) /\ response'.status = 200) =>
                response'.data.components =
                    {componentUuid \in ComponentUuids :
                        \E row \in db.teaProductComponent :
                            /\ row.productUuid = productUuid
                            /\ row.componentUuid = componentUuid}
       /\ Answered({"POST /product"}, 201) =>
            /\ response'.data.components = {}
            /\ \A row \in db'.teaProductComponent :
                    row.productUuid # response'.data.identifier
       /\ (PostComponentLink(FALSE) /\ response'.status = 201) =>
            \E row \in db'.teaProductComponent :
                /\ row.productUuid = inflight.link
                /\ row.componentUuid = response'.data.identifier
       /\ \A row \in db.teaProductComponent :
            (row.componentUuid \in DOMAIN db'.teaComponent
                /\ row.productUuid \in DOMAIN db'.teaProduct) =>
                    row \in db'.teaProductComponent
       /\ Answered({"DELETE /component/{uuid}"}, 204) =>
            \A row \in db'.teaProductComponent :
                row.componentUuid \in DOMAIN db'.teaComponent]_vars

\* A product reports one of the two components, the other being a component
\* of the other product.
C22_Witness ==
    /\ response.op = "GET /product/{uuid}"
    /\ response.status = 200
    /\ response.data.components = {ComponentPool[2]}
    /\ Cardinality(db.teaProductComponent) = 2

\* C23: GET /release/{r} and the item of r in GET /release report as
\* collectionReferences exactly the collections linked to the product of r;
\* when POST /collection for a release answers 201 the collection is linked to
\* the product of every release of that product; when DELETE /collection
\* answers 204 the collection is linked to no product.
C23_CollectionsOfTheProduct ==
    [][/\ \A releaseUuid \in ReleaseUuids :
            (GetRelease(IF deployment = "session" THEN "org1" ELSE NoSession, releaseUuid)
                /\ response'.status = 200) =>
                response'.data.collectionReferences =
                    {collectionUuid \in CollectionUuids :
                        <<collectionUuid, db.teaRelease[releaseUuid].productUuid>>
                            \in db.teaCollectionProducts}
       /\ Answered({"GET /release"}, 200) =>
            \A item \in response'.data.data :
                item.collectionReferences =
                    {collectionUuid \in CollectionUuids :
                        <<collectionUuid, db.teaRelease[item.uuid].productUuid>>
                            \in db.teaCollectionProducts}
       /\ (PostCollectionLink(FALSE) /\ response'.status = 201) =>
            \A releaseUuid \in DOMAIN db'.teaRelease :
                db'.teaRelease[releaseUuid].productUuid = inflight.link =>
                    <<inflight.uuid, inflight.link>> \in db'.teaCollectionProducts
       /\ Answered({"DELETE /collection/{uuid}"}, 204) =>
            \A link \in db'.teaCollectionProducts : link[1] \in DOMAIN db'.teaCollection]_vars

\* The second release reports the collection that was created for the first
\* release of its product.
C23_Witness ==
    /\ response.op = "GET /release/{uuid}"
    /\ response.status = 200
    /\ response.data.uuid = ReleasePool[2]
    /\ response.data.collectionReferences = {CollectionPool[1]}
    /\ CollectionPool[1] \in DOMAIN db.teaCollection
    /\ db.teaCollection[CollectionPool[1]].description =
            CollectionDescription(ReleasePool[1], [type |-> "INITIAL_RELEASE"])

(* ----------------------- the product of a collection ------------------ *)

\* C24: POST /collection for a release that is not stored answers 404
\* 'Release not found' and writes nothing; for a stored release its first
\* write adds one Collection row and no link, and keeps the productUuid of
\* the release; when it answers 201 the links of the new collection are the
\* one link to that product and the answer reports products = [that product].
C24_CollectionOfTheReleaseProduct ==
    [][/\ \A session \in Callers, body \in CollectionBodies, fault \in StoreFaults :
            PostCollection(session, body, fault) =>
                IF body.releaseIdentifier \notin DOMAIN db.teaRelease
                THEN /\ response'.status = 404
                     /\ response'.error = "Release not found"
                     /\ db' = db
                     /\ inflight' = inflight
                ELSE inflight' # inflight =>
                        /\ inflight'.link = db.teaRelease[body.releaseIdentifier].productUuid
                        /\ inflight'.uuid \notin DOMAIN db.teaCollection
                        /\ DOMAIN db'.teaCollection =
                                DOMAIN db.teaCollection \cup {inflight'.uuid}
                        /\ db'.teaCollectionProducts = db.teaCollectionProducts
       /\ \A fault \in StoreFaults :
            (PostCollectionLink(fault) /\ response'.status = 201) =>
                /\ inflight.uuid \in DOMAIN db'.teaCollection
                /\ DOMAIN db'.teaCollection = DOMAIN db.teaCollection
                /\ {link \in db'.teaCollectionProducts : link[1] = inflight.uuid} =
                        {<<inflight.uuid, inflight.link>>}
                /\ {link \in db'.teaCollectionProducts : link[1] # inflight.uuid} =
                        {link \in db.teaCollectionProducts : link[1] # inflight.uuid}
                /\ response'.data.identifier = inflight.uuid
                /\ response'.data.products = {inflight.link}]_vars

\* A collection was created for a release of the second of two products.
C24_Witness ==
    /\ response.op = "POST /collection"
    /\ response.status = 201
    /\ response.data.products = {ProductPool[2]}
    /\ DOMAIN db.teaProduct = {ProductPool[1], ProductPool[2]}
    /\ db.teaCollectionProducts = {<<CollectionPool[1], ProductPool[2]>>}

(* --------------------------- the tag of a release --------------------- *)

\* C25: the row POST /release writes has tag 'v' followed by the version of
\* the request, the version of the request, draft false and prerelease the
\* preRelease flag of the request, false when the request carries none; the
\* 201 answer reports the same and leaves the row so.
C25_ReleaseTagFromVersion ==
    [][/\ \A session \in Callers, body \in ReleaseCreateBodies :
            (PostRelease(session, body, FALSE) /\ inflight' # inflight) =>
                LET release == db'.teaRelease[inflight'.uuid] IN
                /\ inflight'.uuid \notin DOMAIN db.teaRelease
                /\ release.tag = <<"v", body.version>>
                /\ release.version = body.version
                /\ release.draft = FALSE
                /\ release.prerelease =
                        (IF "preRelease" \in DOMAIN body THEN body.preRelease ELSE FALSE)
       /\ (PostReleaseLink(FALSE) /\ response'.status = 201) =>
            /\ db'.teaRelease = db.teaRelease
            /\ response'.data.tag = db.teaRelease[inflight.uuid].tag
            /\ response'.data.version = db.teaRelease[inflight.uuid].version
            /\ response'.data.draft = db.teaRelease[inflight.uuid].draft
            /\ response'.data.prerelease = db.teaRelease[inflight.uuid].prerelease]_vars

\* A release of version 2.0.0 flagged as a pre-release was created.
C25_Witness ==
    /\ response.op = "POST /release"
    /\ response.status = 201
    /\ response.data.tag = <<"v", "2.0.0">>
    /\ response.data.prerelease = TRUE
    /\ response.data.draft = FALSE
    /\ db.teaRelease[response.data.identifier].tag = <<"v", "2.0.0">>

(* ------------------------ the lifecycle a PATCH stores ---------------- *)

C27_InitialLifecycle ==
    [][\A session \in Callers, body \in CollectionBodies :
        (PostCollection(session, body, FALSE) /\ inflight' # inflight) =>
            LET created == db'.teaCollection[inflight'.uuid]
                lifecycle == created.lifecycle.json
            IN  /\ Get(lifecycle, "phase") = "created"
                /\ Get(lifecycle, "startedOn") = Now
                /\ Get(lifecycle, "lastUpdated") = Get(lifecycle, "startedOn")
                /\ Get(lifecycle, "completedOn") \in {Absent, Null}
                /\ \/ Get(lifecycle, "description") =
                        CreatedForRelease[ReleaseOrdinal(body.releaseIdentifier)]
                   \/ created.description[2] = body.releaseIdentifier]_vars

(* ---------------------- the failures of the store --------------------- *)

\* The routes of the two copies of the handlers.
Routes ==
    {"POST /product", "GET /product", "GET /product/{uuid}", "PATCH /product/{uuid}",
     "DELETE /product/{uuid}",
     "POST /component", "GET /component", "GET /component/{uuid}",
     "PATCH /component/{uuid}", "DELETE /component/{uuid}",
     "POST /release", "GET /release", "GET /release/{uuid}", "PATCH /release/{uuid}",
     "DELETE /release/{uuid}",
     "POST /collection", "GET /collection", "GET /collection/{uuid}",
     "PATCH /collection/{uuid}", "DELETE /collection/{uuid}"}

\* catch (error) { console.error(...); return new Response(JSON.stringify(
\* { error: `Internal server error` }), { status: 500 }) } of a handler whose
\* store call throws before the handler has written anything: a findUnique,
\* findMany or count, the JSON.parse of a stored text, or the one create of
\* POST /product.  The functions copy has no /product/{uuid} routes.
Caught(op) ==
    /\ op \in {"GET /product/{uuid}", "PATCH /product/{uuid}", "DELETE /product/{uuid}"}
            => deployment = "session"
    /\ UNCHANGED deployment
    /\ Reject(InternalError(op))

\* Every route, with a store that may fail at each of its calls; one row is
\* created in each entity table.
FaultNext ==
    \/ \E session \in Callers, body \in ProductBodies :
            generated.product = 0 /\ PostProduct(session, body)
    \/ \E session \in Callers : GetProducts(session, EmptyObject)
    \/ \E session \in Callers : GetProduct(session, ProductPool[1])
    \/ \E session \in Callers, fault \in StoreFaults :
            PatchProduct(session, ProductPool[1], [name |-> "renamed"], fault)
    \/ \E session \in Callers, failAt \in CascadeFaults, done \in SUBSET {ReleasePool[1]} :
            DeleteProduct(session, ProductPool[1], failAt, done)
    \/ \E session \in Callers, fault \in StoreFaults :
            /\ generated.component = 0
            /\ PostComponent(session,
                    [name |-> "core", type |-> "library",
                     productIdentifier |-> ProductPool[1]], fault)
    \/ \E fault \in StoreFaults : PostComponentLink(fault)
    \/ \E session \in Callers : GetComponents(session, EmptyObject)
    \/ \E session \in Callers : GetComponent(session, ComponentPool[1])
    \/ \E session \in Callers, fault \in StoreFaults :
            PatchComponent(session, ComponentPool[1], [name |-> "renamed"], fault)
    \/ \E session \in Callers, failAt \in 0..3 :
            DeleteComponent(session, ComponentPool[1], failAt)
    \/ \E session \in Callers, fault \in StoreFaults :
            /\ generated.release = 0
            /\ PostRelease(session,
                    [componentIdentifier |-> ComponentPool[1], version |-> "1.0.0",
                     releaseDate |-> Now], fault)
    \/ \E fault \in StoreFaults : PostReleaseLink(fault)
    \/ \E session \in Callers : GetReleases(session, EmptyObject)
    \/ \E session \in Callers : GetRelease(session, ReleasePool[1])
    \/ \E session \in Callers, fault \in StoreFaults :
            PatchRelease(session, ReleasePool[1], [version |-> "2.0.0"], fault)
    \/ \E session \in Callers, failAt \in 0..2 :
            DeleteRelease(session, ReleasePool[1], failAt)
    \/ \E session \in Callers, fault \in StoreFaults :
            /\ generated.collection = 0
            /\ PostCollection(session,
                    [releaseIdentifier |-> ReleasePool[1],
                     updateReason |-> [type |-> "INITIAL_RELEASE"],
                     artifacts |-> <<"A">>], fault)
    \/ \E fault \in StoreFaults : PostCollectionLink(fault)
    \/ \E session \in Callers : GetCollections(session, EmptyObject)
    \/ \E session \in Callers : GetCollection(session, CollectionPool[1])
    \/ \E fault \in StoreFaults :
            PatchCollection(CollectionPool[1], [name |-> <<"renamed">>], fault)
    \/ \E session \in Callers, fault \in StoreFaults :
            PatchCollectionSession(session, CollectionPool[1],
                                   [name |-> <<"renamed">>], fault)
    \/ \E session \in Callers, fault \in StoreFaults :
            DeleteCollection(session, CollectionPool[1], fault)
    \/ \E op \in Routes : Caught(op)

FaultSpec == Init /\ [][FaultNext]_vars

\* The answer to a request whose store call failed.
ServerError ==
    /\ response'.status = 500
    /\ response'.error = "Internal server error"
    /\ response'.data = EmptyObject

NotFound ==
    /\ response'.status = 404
    /\ db' = db

\* C29: without a store failure, a DELETE of a stored product, component,
\* release or collection by a session that may access it is answered 204 and
\* the row is gone; a row that is gone stays gone; and every GET, PATCH and
\* DELETE of the uuid of a row that is gone is answered 404 and leaves the
\* store as it was.
C29_DeletedStaysGone ==
    [][\A session \in Tenants :
        /\ \A uuid \in StoreProducts :
            /\ (/\ uuid \in DOMAIN db.teaProduct
                /\ ~AccessDenied(db.teaProduct[uuid], session)
                /\ DeleteProduct(session, uuid, 0, {}))
                    => /\ response' = Response("DELETE /product/{uuid}", 204, EmptyObject)
                       /\ uuid \notin DOMAIN db'.teaProduct
            /\ uuid \notin DOMAIN db.teaProduct
                    => /\ uuid \notin DOMAIN db'.teaProduct
                       /\ (\/ GetProduct(session, uuid)
                           \/ PatchProduct(session, uuid, [name |-> "renamed"], FALSE)
                           \/ DeleteProduct(session, uuid, 0, {})) => NotFound
        /\ \A uuid \in StoreComponents :
            /\ (/\ uuid \in DOMAIN db.teaComponent
                /\ ~AccessDenied(db.teaComponent[uuid], session)
                /\ DeleteComponent(session, uuid, 0))
                    => /\ response' = Response("DELETE /component/{uuid}", 204, EmptyObject)
                       /\ uuid \notin DOMAIN db'.teaComponent
            /\ uuid \notin DOMAIN db.teaComponent
                    => /\ uuid \notin DOMAIN db'.teaComponent
                       /\ (\/ GetComponent(session, uuid)
                           \/ PatchComponent(session, uuid, [name |-> "renamed"], FALSE)
                           \/ DeleteComponent(session, uuid, 0)) => NotFound
        /\ \A uuid \in StoreReleases :
            /\ (/\ uuid \in DOMAIN db.teaRelease
                /\ ~AccessDenied(db.teaRelease[uuid], session)
                /\ DeleteRelease(session, uuid, 0))
                    => /\ response' = Response("DELETE /release/{uuid}", 204, EmptyObject)
                       /\ uuid \notin DOMAIN db'.teaRelease
            /\ uuid \notin DOMAIN db.teaRelease
                    => /\ uuid \notin DOMAIN db'.teaRelease
                       /\ (\/ GetRelease(session, uuid)
                           \/ PatchRelease(session, uuid, [version |-> "2.0.0"], FALSE)
                           \/ DeleteRelease(session, uuid, 0)) => NotFound
        /\ \A uuid \in StoreCollections :
            /\ (/\ uuid \in DOMAIN db.teaCollection
                /\ ~AccessDenied(db.teaCollection[uuid], session)
                /\ DeleteCollection(session, uuid, FALSE))
                    => /\ response' = Response("DELETE /collection/{uuid}", 204, EmptyObject)
                       /\ uuid \notin DOMAIN db'.teaCollection
            /\ uuid \notin DOMAIN db.teaCollection
                    => /\ uuid \notin DOMAIN db'.teaCollection
                       /\ (\/ GetCollection(session, uuid)
                           \/ PatchCollection(uuid, [name |-> <<"renamed">>], FALSE)
                           \/ PatchCollectionSession(session, uuid,
                                                     [name |-> <<"renamed">>], FALSE)
                           \/ DeleteCollection(session, uuid, FALSE)) => NotFound]_vars

\* Every stored release has been deleted and a further DELETE /release/{uuid}
\* was answered 404.
C29_Witness ==
    /\ DOMAIN db.teaRelease = {}
    /\ DOMAIN db.teaProduct = StoreProducts
    /\ response = ErrorResponse("DELETE /release/{uuid}", 404, "Release not found")

(* ------------------------- concurrent PATCHes ------------------------- *)

\* The bodies of the PATCH requests that race: a name, artifacts, or a
\* lifecycle with or without a description.
RaceBodies ==
    {[name |-> <<"renamed">>], [artifacts |-> <<"B">>]}
    \cup {[lifecycle |-> [phase |-> phase] @@ description] :
            phase \in {"in-progress", "archived"},
            description \in Optional("description", {"reviewed"})}

\* One collection and PATCH requests to it: of the functions copy one that is
\* served between the findUnique and the update of another, of the session
\* copy one at a time.
RaceNext ==
    \/ \E session \in Callers :
            PostCollection(session,
                [releaseIdentifier |-> ReleasePool[1],
                 updateReason |-> [type |-> "INITIAL_RELEASE"],
                 artifacts |-> <<"A">>], FALSE)
    \/ PostCollectionLink(FALSE)
    \/ \E requestBody \in RaceBodies :
            PatchCollectionFindUnique(CollectionPool[1], requestBody)
    \/ \E fault \in StoreFaults : PatchCollectionUpdate(fault)
    \/ \E requestBody \in RaceBodies :
            PatchCollection(CollectionPool[1], requestBody, FALSE)
    \/ \E session \in Callers, requestBody \in RaceBodies :
            PatchCollectionSession(session, CollectionPool[1], requestBody, FALSE)
    \/ \E session \in Callers : GetCollection(session, CollectionPool[1])

RaceSpec == LifecycleInit /\ [][RaceNext]_vars

\* C30: when the update of a PATCH /collection/{uuid} commits after other
\* PATCH requests to the collection have committed since it read the row, the
\* stored collection is the one the request would have written had it been
\* served whole at the time of its commit: the phase transition is valid from
\* the phase stored at that time, and the row is the stored row updated with
\* the updateData computed from the stored row.
C30_LastCommittedWriteWins ==
    [][(/\ PatchCollectionUpdate(FALSE)
        /\ inflight.uuid \in DOMAIN db.teaCollection)
            => LET requestBody == inflight.requestBody
                   stored == db.teaCollection[inflight.uuid]
                   currentLifecycle == JSONparse(stored.lifecycle, EmptyObject)
               IN  /\ Has(requestBody, "lifecycle")
                        => isValidPhaseTransition(Get(currentLifecycle, "phase"),
                                                  Get(requestBody.lifecycle, "phase"))
                   /\ db' = CollectionUpdate(db, inflight.uuid,
                                             CollectionUpdateData(stored, requestBody))]_vars

\* C31: when the update of a PATCH /collection/{uuid} with an explicit
\* lifecycle request commits, under any interleaving with other PATCH requests
\* to the collection, a change of the stored phase is a transition of the
\* table from the phase stored at the moment of the write.
C31_PhaseChangeValidAtWrite ==
    [][(/\ PatchCollectionUpdate(FALSE)
        /\ inflight.uuid \in DOMAIN db.teaCollection
        /\ Has(inflight.requestBody, "lifecycle"))
            => LET storedPhase ==
                       Get(JSONparse(db.teaCollection[inflight.uuid].lifecycle,
                                     EmptyObject), "phase")
                   writtenPhase ==
                       Get(JSONparse(db'.teaCollection[inflight.uuid].lifecycle,
                                     EmptyObject), "phase")
               IN  \/ writtenPhase = storedPhase
                   \/ isValidPhaseTransition(storedPhase, writtenPhase)]_vars

\* C40: GET /release with idType and idValue that no component carries answers
\* an empty page with total 0, hasNext = (pageOffset + pageSize < 0), that is
\* false, and hasPrevious = (pageOffset > 0), for every pageOffset.
C40_EmptyFilteredReleaseList ==
    [][\A session \in Callers, query \in Queries :
        (/\ GetReleases(session, query)
         /\ response'.status = 200
         /\ Has(query, "idType")
         /\ \A uuid \in DOMAIN db.teaComponent :
                ~IdentifierMatches(db.teaComponent[uuid], query))
            => /\ response'.data.data = {}
               /\ response'.data.pagination.total = 0
               /\ response'.data.pagination.hasNext = FALSE
               /\ response'.data.pagination.hasPrevious =
                    (Has(query, "pageOffset") /\ query.pageOffset > 0)]_vars

\* C35: a PATCH /collection/{uuid} whose lifecycle request is refused with 400
\* 'Invalid lifecycle phase transition' leaves the stored row of the
\* collection (name, description, artifacts, lifecycle, updatedAt) and the
\* rest of the store as they were, whatever else the body carried.
C35_RejectedPatchWritesNothing ==
    [][\A collectionUuid \in DOMAIN db.teaCollection, requestBody \in PatchBodies :
        (/\ PatchCollection(collectionUuid, requestBody, FALSE)
         /\ response'.status = 400)
            => /\ response'.error = "Invalid lifecycle phase transition"
               /\ Has(requestBody, "lifecycle")
               /\ db'.teaCollection[collectionUuid] = db.teaCollection[collectionUuid]
               /\ db' = db]_vars

\* A collection that has reached `deprecated` and a PATCH on it that was
\* refused.
C35_Witness ==
    /\ response = ErrorResponse("PATCH /collection/{uuid}", 400,
                                "Invalid lifecycle phase transition")
    /\ \E collectionUuid \in DOMAIN db.teaCollection :
            Get(JSONparse(db.teaCollection[collectionUuid].lifecycle, EmptyObject),
                "phase") = "deprecated"

C39_AssociationsWithinOrganisation ==
    /\ \A row \in db.teaProductComponent :
        (/\ row.productUuid \in DOMAIN db.teaProduct
         /\ row.componentUuid \in DOMAIN db.teaComponent)
            => db.teaProduct[row.productUuid].orgId
                    = db.teaComponent[row.componentUuid].orgId
    /\ \A releaseUuid \in DOMAIN db.teaRelease :
        db.teaRelease[releaseUuid].productUuid \in DOMAIN db.teaProduct
            => db.teaRelease[releaseUuid].orgId
                    = db.teaProduct[db.teaRelease[releaseUuid].productUuid].orgId

\* C33: in every reachable state each component has at most one
\* ProductComponent row and each release has at most one ReleaseComponent row,
\* so that the lookup of the product of a release never has two rows to choose
\* from.
C33_AtMostOneAssociation ==
    /\ \A componentUuid \in ComponentUuids :
            Cardinality(ProductComponentsOf(db, componentUuid)) <= 1
    /\ \A releaseUuid \in ReleaseUuids :
            Cardinality(ComponentsOfRelease(db, releaseUuid)) <= 1

\* Two products, two components of the second product, each with its row,
\* and a release with its row.
C33_Witness ==
    /\ Cardinality(DOMAIN db.teaProduct) = 2
    /\ Cardinality(db.teaProductComponent) = 2
    /\ \A row \in db.teaProductComponent : row.productUuid = ProductPool[2]
    /\ \E releaseUuid \in DOMAIN db.teaRelease :
            Cardinality(ComponentsOfRelease(db, releaseUuid)) = 1

(* ------------------ creates, patches and deletes in turn -------------- *)

\* The requests of one caller that create, patch and delete rows, served one
\* after the other: a request starts when the one before it has been
\* answered.  A store call of a cascade may fail.
SequenceNext ==
    \/ \E session \in Callers, body \in ProductBodies : PostProduct(session, body)
    \/ \E session \in Callers, body \in ComponentBodies : PostComponent(session, body, FALSE)
    \/ PostComponentLink(FALSE)
    \/ \E session \in Callers, body \in ReleaseBodies : PostRelease(session, body, FALSE)
    \/ PostReleaseLink(FALSE)
    \/ \E session \in Callers :
            /\ inflight = NoRequest
            /\ PatchComponent(session, ComponentPool[1], [name |-> "renamed"], FALSE)
    \/ \E session \in Callers :
            /\ inflight = NoRequest
            /\ PatchRelease(session, ReleasePool[1], [version |-> "2.0.0"], FALSE)
    \/ \E session \in Callers, productUuid \in ProductUuids, failAt \in CascadeFaults,
          done \in SUBSET ReleaseUuids :
            /\ inflight = NoRequest
            /\ DeleteProduct(session, productUuid, failAt, done)
    \/ \E session \in Callers, componentUuid \in ComponentUuids, failAt \in 0..3 :
            /\ inflight = NoRequest
            /\ DeleteComponent(session, componentUuid, failAt)
    \/ \E session \in Callers, releaseUuid \in ReleaseUuids, failAt \in 0..2 :
            /\ inflight = NoRequest
            /\ DeleteRelease(session, releaseUuid, failAt)

SequenceSpec == Init /\ [][SequenceNext]_vars

\* C34: in every state reached by requests served in turn, every
\* ReleaseComponent row (r, c) of a stored release r comes with
\* a ProductComponent row (productUuid of r, c).
C34_ReleaseProductAgrees ==
    \A row \in db.teaReleaseComponent :
        row.releaseUuid \in DOMAIN db.teaRelease =>
            \E link \in db.teaProductComponent :
                /\ link.productUuid = db.teaRelease[row.releaseUuid].productUuid
                /\ link.componentUuid = row.componentUuid

\* C38: a DELETE /product/{p} that answers 204 leaves every component row and
\* every collection row as it was and removes p, the ProductComponent rows of
\* p, the releases of p with their ReleaseComponent rows and the collection
\* links of p, and nothing else; and a POST /release for a stored component
\* that has no ProductComponent row is answered 404 'Component not associated
\* with any product' and writes nothing.
C38_ProductDeleteFrame ==
    [][\A session \in Callers :
        /\ \A productUuid \in ProductUuids :
            (DeleteProduct(session, productUuid, 0, {}) /\ response'.status = 204)
                => LET releases == ReleasesOfProduct(db, productUuid) IN
                   /\ db'.teaComponent = db.teaComponent
                   /\ db'.teaCollection = db.teaCollection
                   /\ DOMAIN db'.teaProduct = DOMAIN db.teaProduct \ {productUuid}
                   /\ \A other \in DOMAIN db'.teaProduct :
                        db'.teaProduct[other] = db.teaProduct[other]
                   /\ db'.teaProductComponent =
                        {row \in db.teaProductComponent : row.productUuid # productUuid}
                   /\ DOMAIN db'.teaRelease = DOMAIN db.teaRelease \ releases
                   /\ \A other \in DOMAIN db'.teaRelease :
                        db'.teaRelease[other] = db.teaRelease[other]
                   /\ db'.teaReleaseComponent =
                        {row \in db.teaReleaseComponent : row.releaseUuid \notin releases}
                   /\ db'.teaCollectionProducts =
                        {link \in db.teaCollectionProducts : link[2] # productUuid}
        /\ \A body \in ReleaseBodies :
            (/\ PostRelease(session, body, FALSE)
             /\ body.componentIdentifier \in DOMAIN db.teaComponent
             /\ ProductComponentsOf(db, body.componentIdentifier) = {})
                => /\ response' = ErrorResponse("POST /release", 404,
                                                "Component not associated with any product")
                   /\ UNCHANGED <<db, generated, inflight>>]_vars

\* The product is gone, its component and the collection of its release are
\* stored, and a POST /release for the component was refused.
C38_Witness ==
    /\ DOMAIN db.teaProduct = {}
    /\ DOMAIN db.teaRelease = {}
    /\ DOMAIN db.teaComponent # {}
    /\ DOMAIN db.teaCollection # {}
    /\ response = ErrorResponse("POST /release", 404,
                                "Component not associated with any product")

(* ------------- DELETE /product/{uuid} against POST /release -------------- *)

\* The store calls of the two handlers, one call a step. `inflight` holds the
\* DELETE /product/{uuid} with the store call it makes next, the releases its
\* findMany returned, the status it answered with (0: none yet), and under
\* `post` the POST /release served meanwhile. A statement that has run stays
\* run when a later one throws: statements that interleave with those of
\* another request are not statements of a transaction the store honours.

\* DELETE /product/{uuid}, up to and with teaProduct.findUnique
DeleteProductFindUnique(session, productUuid) ==
    /\ deployment = "session"
    /\ inflight = NoRequest
    /\ UNCHANGED deployment
    /\ IF Unauthenticated(session)
       THEN Reject(ErrorResponse("DELETE /product/{uuid}", 401, "Authentication required"))
       ELSE IF InvalidUuid(productUuid)
       THEN Reject(ErrorResponse("DELETE /product/{uuid}", 400, "Invalid product UUID"))
       ELSE IF productUuid \notin DOMAIN db.teaProduct
       THEN Reject(ErrorResponse("DELETE /product/{uuid}", 404, "Product not found"))
       ELSE IF AccessDenied(db.teaProduct[productUuid], session)
       THEN Reject(ErrorResponse("DELETE /product/{uuid}", 403, "Access denied"))
       ELSE /\ inflight' = [op |-> "DELETE /product/{uuid}", uuid |-> productUuid,
                            call |-> 1, releases |-> {}, answered |-> 0,
                            post |-> NoRequest]
            /\ UNCHANGED <<db, generated, response>>

\* DELETE /product/{uuid}, the next store call of the cascade: 1 is
\* teaProductComponent.deleteMany, 2 teaRelease.findMany, 3 the
\* teaReleaseComponent.deleteMany of one release of the loop, 4
\* teaRelease.deleteMany and 5 teaProduct.delete with the response.
DeleteProductTransaction ==
    /\ inflight.op = "DELETE /product/{uuid}"
    /\ inflight.answered = 0
    /\ UNCHANGED <<deployment, generated>>
    /\ LET productUuid == inflight.uuid
           threw == /\ response' = InternalError("DELETE /product/{uuid}")
                    /\ inflight' = [inflight EXCEPT !.answered = 500]
                    /\ UNCHANGED db
       IN  CASE inflight.call = 1 ->
                    /\ db' = ProductComponentDeleteMany(db, {productUuid}, {})
                    /\ inflight' = [inflight EXCEPT !.call = 2]
                    /\ UNCHANGED response
             [] inflight.call = 2 ->
                    LET releases == ReleasesOfProduct(db, productUuid) IN
                    /\ inflight' = [inflight EXCEPT !.releases = releases,
                                                    !.call = IF releases = {} THEN 4 ELSE 3]
                    /\ UNCHANGED <<db, response>>
             [] inflight.call = 3 ->
                    \E release \in inflight.releases :
                        /\ db' = ReleaseComponentDeleteMany(db, {release}, {})
                        /\ inflight' = [inflight EXCEPT
                                            !.releases = @ \ {release},
                                            !.call = IF inflight.releases = {release}
                                                     THEN 4 ELSE 3]
                        /\ UNCHANGED response
             [] inflight.call = 4 ->
                    LET releases == ReleasesOfProduct(db, productUuid) IN
                    IF ~ReleaseDeleteOk(db, releases)
                    THEN threw
                    ELSE /\ db' = ReleaseDelete(db, releases)
                         /\ inflight' = [inflight EXCEPT !.call = 5]
                         /\ UNCHANGED response
             [] OTHER ->
                    IF ~ProductDeleteOk(db, productUuid)
                    THEN threw
                    ELSE /\ db' = ProductDelete(db, productUuid)
                         /\ response' = Response("DELETE /product/{uuid}", 204, EmptyObject)
                         /\ inflight' = [inflight EXCEPT !.answered = 204]

\* POST /release beside the DELETE: the checks of the body, then
\* teaComponent.findUnique and teaProductComponent.findFirst
RacingPostRelease(session, body) ==
    /\ inflight.op = "DELETE /product/{uuid}"
    /\ inflight.post = NoRequest
    /\ UNCHANGED <<deployment, db, generated>>
    /\ LET answer(rejection) == /\ response' = rejection
                                /\ UNCHANGED inflight
       IN  IF Unauthenticated(session)
           THEN answer(ErrorResponse("POST /release", 401, "Authentication required"))
           ELSE IF Falsy(body, "componentIdentifier")
           THEN answer(ErrorResponse("POST /release", 400,
                                     "Missing required field: componentIdentifier"))
           ELSE IF Falsy(body, "version")
           THEN answer(ErrorResponse("POST /release", 400, "Missing required field: version"))
           ELSE IF Falsy(body, "releaseDate")
           THEN answer(ErrorResponse("POST /release", 400,
                                     "Missing required field: releaseDate"))
           ELSE IF InvalidUuid(body.componentIdentifier)
           THEN answer(ErrorResponse("POST /release", 400, "Invalid component UUID format"))
           ELSE IF body.componentIdentifier \notin DOMAIN db.teaComponent
           THEN answer(ErrorResponse("POST /release", 404, "Component not found"))
           ELSE IF AccessDenied(db.teaComponent[body.componentIdentifier], session)
           THEN answer(ErrorResponse("POST /release", 403, "Access denied to component"))
           ELSE IF ProductComponentsOf(db, body.componentIdentifier) = {}
           THEN answer(ErrorResponse("POST /release", 404,
                                     "Component not associated with any product"))
           ELSE \E productComponent \in ProductComponentsOf(db, body.componentIdentifier) :
                    /\ inflight' = [inflight EXCEPT !.post =
                            [op |-> "POST /release", uuid |-> Null,
                             link |-> body.componentIdentifier,
                             created |->
                                [productUuid |-> productComponent.productUuid,
                                 tag |-> ReleaseTag(body.version),
                                 version |-> body.version,
                                 name |-> Null,
                                 prerelease |-> IF Has(body, "preRelease")
                                                THEN body.preRelease ELSE FALSE,
                                 draft |-> FALSE,
                                 orgId |-> OrgIdOf(session),
                                 createdAt |-> Now,
                                 updatedAt |-> Now]]]
                    /\ UNCHANGED response

\* POST /release beside the DELETE: crypto.randomUUID() and teaRelease.create
RacingPostReleaseCreate ==
    /\ inflight.op = "DELETE /product/{uuid}"
    /\ inflight.post.op = "POST /release"
    /\ inflight.post.uuid = Null
    /\ generated.release < MaxReleases
    /\ generated' = [generated EXCEPT !.release = @ + 1]
    /\ UNCHANGED deployment
    /\ LET releaseUuid == ReleasePool[generated.release + 1] IN
       IF ~ReleaseCreateOk(db, inflight.post.created)
       THEN /\ response' = InternalError("POST /release")
            /\ inflight' = [inflight EXCEPT !.post = NoRequest]
            /\ UNCHANGED db
       ELSE /\ db' = [db EXCEPT !.teaRelease = Put(@, releaseUuid, inflight.post.created)]
            /\ inflight' = [inflight EXCEPT !.post.uuid = releaseUuid]
            /\ UNCHANGED response

\* POST /release beside the DELETE: teaReleaseComponent.create and the response
RacingPostReleaseLink ==
    /\ inflight.op = "DELETE /product/{uuid}"
    /\ inflight.post.op = "POST /release"
    /\ inflight.post.uuid # Null
    /\ inflight' = [inflight EXCEPT !.post = NoRequest]
    /\ UNCHANGED <<deployment, generated>>
    /\ LET row == [releaseUuid |-> inflight.post.uuid,
                   componentUuid |-> inflight.post.link] IN
       IF ~ReleaseComponentCreateOk(db, row)
       THEN /\ response' = InternalError("POST /release")
            /\ UNCHANGED db
       ELSE /\ db' = ReleaseComponentCreate(db, row)
            /\ response' = Response("POST /release", 201,
                                    [identifier |-> inflight.post.uuid,
                                     productUuid |-> inflight.post.created.productUuid,
                                     tag |-> inflight.post.created.tag,
                                     version |-> inflight.post.created.version,
                                     prerelease |-> inflight.post.created.prerelease,
                                     draft |-> inflight.post.created.draft,
                                     components |-> {inflight.post.link}])

DeleteRaceNext ==
    \/ \E session \in Callers, productUuid \in ProductUuids :
            DeleteProductFindUnique(session, productUuid)
    \/ DeleteProductTransaction
    \/ \E session \in Callers, body \in ReleaseBodies : RacingPostRelease(session, body)
    \/ RacingPostReleaseCreate
    \/ RacingPostReleaseLink

\* The session copy with a product, its component and their link stored, and
\* with or without a release of the product.
DeleteRaceInit ==
    /\ deployment = "session"
    /\ inflight = NoRequest
    /\ response = NoResponse
    /\ \E released \in BOOLEAN :
        /\ db = IF released
                THEN ReleasedStore("org1")
                ELSE ReleaseDelete(ReleaseComponentDeleteMany(ReleasedStore("org1"),
                                                              {ReleasePool[1]}, {}),
                                   {ReleasePool[1]})
        /\ generated = [product |-> 1, component |-> 1,
                        release |-> IF released THEN 1 ELSE 0, collection |-> 0]

DeleteRaceSpec == DeleteRaceInit /\ [][DeleteRaceNext]_vars

\* C32: once a DELETE /product/{p} served beside POST /release requests has
\* answered 204, the store holds no release whose productUuid is p and no
\* ReleaseComponent row of such a release, whatever the order of the store
\* calls of the two handlers.
C32_NoOrphanAfterDelete ==
    (inflight.op = "DELETE /product/{uuid}" /\ inflight.answered = 204)
        => /\ ReleasesOfProduct(db, inflight.uuid) = {}
           /\ \A row \in db.teaReleaseComponent :
                /\ row.releaseUuid \in DOMAIN db.teaRelease
                /\ db.teaRelease[row.releaseUuid].productUuid # inflight.uuid

\* The delete answered 204 and a POST /release that had read the product's
\* component link before the cascade removed it then failed in the store.
C32_Witness ==
    /\ inflight.op = "DELETE /product/{uuid}"
    /\ inflight.answered = 204
    /\ generated.release = MaxReleases
    /\ response = InternalError("POST /release")

=============================================================================
